---------------------------- MODULE Spec2Model ----------------------------
(***************************************************************************)
(* buildkite-signed-pipeline: the signing walker (Sign, signStep,          *)
(* extractPlugins, extractCommand, signData), the verifier (Verify), the   *)
(* plugin canonicaliser (plugins.go) and the unsigned-command allow list   *)
(* (unsigned_commands.go).                                                 *)
(*                                                                         *)
(* Go strings are TLA+ strings; Len, \o and SubSeq act on them character   *)
(* by character.  SANY's lexer does not accept the grave accent (U+0060)   *)
(* inside a string literal, so that one character is written as the acute  *)
(* accent throughout (see Backtick).                                       *)
(*                                                                         *)
(* A decoded JSON value (Go's `any`) is a tagged record:                   *)
(*   [k |-> "nil"], [k |-> "string", s |-> ...], [k |-> "number", n |-> ..]*)
(*   [k |-> "bool", b |-> ...], [k |-> "slice", l |-> <<...>>],            *)
(*   [k |-> "map", m |-> [key |-> value]]                                  *)
(* A Go function that ranges over a map has one outcome per iteration      *)
(* order: such functions are modelled by the SET of their outcomes.        *)
(***************************************************************************)
EXTENDS Integers, Sequences, FiniteSets, TLC

(* ------------------------------------------------------------------ *)
(* Go values                                                          *)
(* ------------------------------------------------------------------ *)
Nil == [k |-> "nil"]
Str(s) == [k |-> "string", s |-> s]
Num(n) == [k |-> "number", n |-> n]
Bool(b) == [k |-> "bool", b |-> b]
Slice(l) == [k |-> "slice", l |-> l]
Map(m) == [k |-> "map", m |-> m]
EmptyMap == Map(<<>>)

\* map[string]any{key: value}
Map1(key, value) == Map([x \in {key} |-> value])
\* map[string]any{k1: v1, k2: v2}
Map2(k1, v1, k2, v2) == Map([x \in {k1, k2} |-> IF x = k1 THEN v1 ELSE v2])

HasKey(v, key) == v.k = "map" /\ key \in DOMAIN v.m
\* m[key] of a Go map: the zero value (nil) when the key is absent
MapGet(v, key) == IF key \in DOMAIN v.m THEN v.m[key] ELSE Nil
\* m[key] = value on a copy
MapSet(v, key, value) ==
    Map([x \in (DOMAIN v.m) \cup {key} |-> IF x = key THEN value ELSE v.m[x]])

\* %T of a decoded JSON value
GoTypeName(v) ==
    CASE v.k = "nil" -> "<nil>"
      [] v.k = "string" -> "string"
      [] v.k = "number" -> "float64"
      [] v.k = "bool" -> "bool"
      [] v.k = "slice" -> "[]interface {}"
      [] v.k = "map" -> "map[string]interface {}"

(* ------------------------------------------------------------------ *)
(* strings                                                            *)
(* ------------------------------------------------------------------ *)
\* U+0060, written as U+00B4
Backtick == "´"

At(s, i) == SubSeq(s, i, i)

\* The characters of the model in byte order (for Go's < on strings).
ByteOrder ==
    "\t\n\f\r !\"#$%&'()*+,-./0123456789:;<=>?@ABCDEFGHIJKLMNOPQRSTUVWXYZ[\\]^_"
    \o Backtick \o "abcdefghijklmnopqrstuvwxyz{|}~"

Chars == {At(ByteOrder, i) : i \in 1..Len(ByteOrder)}

Ord == [c \in Chars |-> CHOOSE i \in 1..Len(ByteOrder) : At(ByteOrder, i) = c]

\* the least element of a non-empty set of integers
Least(S) == CHOOSE i \in S : \A j \in S : i <= j

\* the first index at which a and b differ (one past the shorter when one is a
\* prefix of the other)
FirstDiff(a, b) ==
    LET n == IF Len(a) < Len(b) THEN Len(a) ELSE Len(b)
    IN  Least({i \in 1..n : At(a, i) # At(b, i)} \cup {n + 1})

\* a < b on Go strings (bytewise lexicographic)
StrLess(a, b) ==
    LET LessAt(i) == IF i > Len(b) THEN FALSE
                     ELSE IF i > Len(a) THEN TRUE
                     ELSE Ord[At(a, i)] < Ord[At(b, i)]
    IN  LessAt(FirstDiff(a, b))

HasPrefix(s, prefix) ==
    Len(s) >= Len(prefix) /\ SubSeq(s, 1, Len(prefix)) = prefix

HasSuffix(s, suffix) ==
    Len(s) >= Len(suffix) /\ SubSeq(s, Len(s) - Len(suffix) + 1, Len(s)) = suffix

TrimSuffix(s, suffix) ==
    IF HasSuffix(s, suffix) THEN SubSeq(s, 1, Len(s) - Len(suffix)) ELSE s

ContainsAny(s, chars) ==
    \E i \in 1..Len(s) : \E j \in 1..Len(chars) : At(s, i) = At(chars, j)

\* unicode.IsSpace on the characters of the model
IsSpace(c) == c \in {" ", "\t", "\n", "\r", "\f"}

RECURSIVE TrimLeft(_)
TrimLeft(s) ==
    IF Len(s) > 0 /\ IsSpace(At(s, 1)) THEN TrimLeft(SubSeq(s, 2, Len(s))) ELSE s

RECURSIVE TrimRight(_)
TrimRight(s) ==
    IF Len(s) > 0 /\ IsSpace(At(s, Len(s)))
    THEN TrimRight(SubSeq(s, 1, Len(s) - 1)) ELSE s

TrimSpace(s) == TrimRight(TrimLeft(s))

\* strings.Join
RECURSIVE Join(_, _)
Join(list, sep) ==
    IF Len(list) = 0 THEN ""
    ELSE IF Len(list) = 1 THEN list[1]
    ELSE list[1] \o sep \o Join(Tail(list), sep)

LowerChars == {At("abcdefghijklmnopqrstuvwxyz", i) : i \in 1..26}
UpperChars == {At("ABCDEFGHIJKLMNOPQRSTUVWXYZ", i) : i \in 1..26}
DigitChars == {At("0123456789", i) : i \in 1..10}
IsLower(c) == c \in LowerChars
IsUpper(c) == c \in UpperChars
IsDigit(c) == c \in DigitChars

ToLower(c) ==
    IF IsUpper(c)
    THEN At("abcdefghijklmnopqrstuvwxyz",
            CHOOSE i \in 1..26 : At("ABCDEFGHIJKLMNOPQRSTUVWXYZ", i) = c)
    ELSE c

\* strings.EqualFold on ASCII
EqualFold(a, b) ==
    Len(a) = Len(b) /\ \A i \in 1..Len(a) : ToLower(At(a, i)) = ToLower(At(b, i))

\* strconv of a small natural
RECURSIVE Itoa(_)
Itoa(n) == IF n < 10 THEN At("0123456789", n + 1)
           ELSE Itoa(n \div 10) \o At("0123456789", (n % 10) + 1)

\* The orders in which a range over a set of map keys can run.
Orders(S) ==
    {o \in [1..Cardinality(S) -> S] : \A i, j \in 1..Cardinality(S) : i # j => o[i] # o[j]}

(* ------------------------------------------------------------------ *)
(* encoding/json                                                      *)
(* ------------------------------------------------------------------ *)
\* The keys of a map in ascending byte order (json.Marshal sorts map keys).
RECURSIVE SortedKeys(_)
SortedKeys(S) ==
    IF S = {} THEN <<>>
    ELSE LET least == CHOOSE x \in S : \A y \in S \ {x} : StrLess(x, y)
         IN  <<least>> \o SortedKeys(S \ {least})

\* One character of a string as json.Marshal writes it (HTML escaping on).
EscapeChar(c) ==
    CASE c = "\"" -> "\\\""
      [] c = "\\" -> "\\\\"
      [] c = "\n" -> "\\n"
      [] c = "\r" -> "\\r"
      [] c = "\t" -> "\\t"
      [] c = "\f" -> "\\u000c"
      [] c = "<" -> "\\u003c"
      [] c = ">" -> "\\u003e"
      [] c = "&" -> "\\u0026"
      [] OTHER -> c

\* every character of s escaped (s is split in halves to keep the recursion shallow)
RECURSIVE EscapeString(_)
EscapeString(s) ==
    IF Len(s) = 0 THEN ""
    ELSE IF Len(s) = 1 THEN EscapeChar(s)
    ELSE EscapeString(SubSeq(s, 1, Len(s) \div 2))
         \o EscapeString(SubSeq(s, (Len(s) \div 2) + 1, Len(s)))

Quote(s) == "\"" \o EscapeString(s) \o "\""

\* json.Marshal of a decoded JSON value
RECURSIVE Marshal(_)
RECURSIVE MarshalList(_)
RECURSIVE MarshalMembers(_, _)
Marshal(v) ==
    CASE v.k = "nil" -> "null"
      [] v.k = "string" -> Quote(v.s)
      [] v.k = "number" -> Itoa(v.n)
      [] v.k = "bool" -> IF v.b THEN "true" ELSE "false"
      [] v.k = "slice" -> "[" \o MarshalList(v.l) \o "]"
      [] v.k = "map" -> "{" \o MarshalMembers(v.m, SortedKeys(DOMAIN v.m)) \o "}"

MarshalList(l) ==
    IF Len(l) = 0 THEN ""
    ELSE IF Len(l) = 1 THEN Marshal(l[1])
    ELSE Marshal(l[1]) \o "," \o MarshalList(Tail(l))

MarshalMembers(m, keys) ==
    IF Len(keys) = 0 THEN ""
    ELSE Quote(keys[1]) \o ":" \o Marshal(m[keys[1]])
         \o (IF Len(keys) = 1 THEN "" ELSE "," \o MarshalMembers(m, Tail(keys)))

\* A parse step: ok, the value read, and the index after it.
Parsed(v, i) == [ok |-> TRUE, v |-> v, i |-> i]
ParseFail == [ok |-> FALSE, v |-> Nil, i |-> 0]

RECURSIVE SkipSpace(_, _)
SkipSpace(s, i) ==
    IF i <= Len(s) /\ At(s, i) \in {" ", "\t", "\n", "\r"} THEN SkipSpace(s, i + 1) ELSE i

Literal(s, i, word, v) ==
    IF i + Len(word) - 1 <= Len(s) /\ SubSeq(s, i, i + Len(word) - 1) = word
    THEN Parsed(v, i + Len(word)) ELSE ParseFail

\* the digits of a natural from index i (acc holds the value so far)
RECURSIVE ParseDigits(_, _, _)
ParseDigits(s, i, acc) ==
    IF i <= Len(s) /\ IsDigit(At(s, i))
    THEN ParseDigits(s, i + 1,
                     acc * 10 + ((CHOOSE d \in 1..10 : At("0123456789", d) = At(s, i)) - 1))
    ELSE Parsed(Num(acc), i)

\* \uXXXX escapes that json.Marshal writes for the characters of the model
Unescape4(hex) ==
    CASE hex = "003c" -> "<"
      [] hex = "003e" -> ">"
      [] hex = "0026" -> "&"
      [] hex = "000c" -> "\f"
      [] OTHER -> ""

\* the characters of a string from index i0 (after the opening quote): the plain
\* characters up to the next quote, backslash or control character are taken at once
RECURSIVE ParseChars(_, _, _)
ParseChars(s, i0, acc0) ==
    LET Escape(i, acc, e) ==
            CASE e = "\"" -> ParseChars(s, i + 2, acc \o "\"")
              [] e = "\\" -> ParseChars(s, i + 2, acc \o "\\")
              [] e = "/" -> ParseChars(s, i + 2, acc \o "/")
              [] e = "n" -> ParseChars(s, i + 2, acc \o "\n")
              [] e = "r" -> ParseChars(s, i + 2, acc \o "\r")
              [] e = "t" -> ParseChars(s, i + 2, acc \o "\t")
              [] e = "f" -> ParseChars(s, i + 2, acc \o "\f")
              [] e = "u" ->
                  IF i + 5 <= Len(s) /\ Unescape4(SubSeq(s, i + 2, i + 5)) # ""
                  THEN ParseChars(s, i + 6, acc \o Unescape4(SubSeq(s, i + 2, i + 5)))
                  ELSE ParseFail
              [] OTHER -> ParseFail
        Special(i, acc, c) ==
            IF c = "\"" THEN Parsed(Str(acc), i + 1)
            ELSE IF c \in {"\n", "\t", "\r", "\f"} THEN ParseFail
            ELSE IF i + 1 > Len(s) THEN ParseFail
            ELSE Escape(i, acc, At(s, i + 1))
        Plain(i) ==
            IF i > Len(s) THEN ParseFail
            ELSE Special(i, acc0 \o SubSeq(s, i0, i - 1), At(s, i))
    IN  Plain(Least({j \in i0..Len(s) : At(s, j) \in {"\"", "\\", "\n", "\t", "\r", "\f"}}
                    \cup {Len(s) + 1}))

\* a JSON text read into a decoded value (json.Unmarshal into `any`)
RECURSIVE ParseValue(_, _)
RECURSIVE ParseElements(_, _, _)
RECURSIVE ParseMembers(_, _, _)
ParseValue(s, i0) ==
    LET Array(j) ==
            IF j <= Len(s) /\ At(s, j) = "]" THEN Parsed(Slice(<<>>), j + 1)
            ELSE ParseElements(s, j, <<>>)
        Object(j) ==
            IF j <= Len(s) /\ At(s, j) = "}" THEN Parsed(EmptyMap, j + 1)
            ELSE ParseMembers(s, j, EmptyMap)
        Value(i, c) ==
            CASE c = "n" -> Literal(s, i, "null", Nil)
              [] c = "t" -> Literal(s, i, "true", Bool(TRUE))
              [] c = "f" -> Literal(s, i, "false", Bool(FALSE))
              [] c = "\"" -> ParseChars(s, i + 1, "")
              [] IsDigit(c) -> ParseDigits(s, i, 0)
              [] c = "[" -> Array(SkipSpace(s, i + 1))
              [] c = "{" -> Object(SkipSpace(s, i + 1))
              [] OTHER -> ParseFail
        Start(i) == IF i > Len(s) THEN ParseFail ELSE Value(i, At(s, i))
    IN  Start(SkipSpace(s, i0))

\* value (',' value)* ']'
ParseElements(s, i, acc) ==
    LET Close(e, j) ==
            IF j > Len(s) THEN ParseFail
            ELSE IF At(s, j) = "]" THEN Parsed(Slice(Append(acc, e.v)), j + 1)
            ELSE IF At(s, j) = "," THEN ParseElements(s, j + 1, Append(acc, e.v))
            ELSE ParseFail
        Element(e) == IF ~e.ok THEN ParseFail ELSE Close(e, SkipSpace(s, e.i))
    IN  Element(ParseValue(s, i))

\* string ':' value (',' string ':' value)* '}' ; a repeated key keeps its last value
ParseMembers(s, i0, acc) ==
    LET Close(j, m) ==
            IF j > Len(s) THEN ParseFail
            ELSE IF At(s, j) = "}" THEN Parsed(m, j + 1)
            ELSE IF At(s, j) = "," THEN ParseMembers(s, j + 1, m)
            ELSE ParseFail
        Member(key, e) ==
            IF ~e.ok THEN ParseFail
            ELSE Close(SkipSpace(s, e.i), MapSet(acc, key.v.s, e.v))
        Colon(key, c) ==
            IF c > Len(s) \/ At(s, c) # ":" THEN ParseFail
            ELSE Member(key, ParseValue(s, c + 1))
        Key(key) == IF ~key.ok THEN ParseFail ELSE Colon(key, SkipSpace(s, key.i))
        Start(i) ==
            IF i > Len(s) \/ At(s, i) # "\"" THEN ParseFail
            ELSE Key(ParseChars(s, i + 1, ""))
    IN  Start(SkipSpace(s, i0))

\* json.Unmarshal(text, &v) for v of type any: [ok, v]
Unmarshal(text) ==
    LET Whole(p) ==
            IF p.ok /\ SkipSpace(text, p.i) > Len(text) THEN [ok |-> TRUE, v |-> p.v]
            ELSE [ok |-> FALSE, v |-> Nil]
    IN  Whole(ParseValue(text, 1))

(* ------------------------------------------------------------------ *)
(* results of Go functions                                            *)
(* ------------------------------------------------------------------ *)
\* (v, nil)
Ok(v) == [r |-> "ok", v |-> v]
\* (zero, err): e names the error
Err(e) == [r |-> "error", e |-> e]
\* a run-time panic (the process crashes)
Panic == [r |-> "panic"]

(* ------------------------------------------------------------------ *)
(* plugins.go                                                         *)
(* ------------------------------------------------------------------ *)
IsIdentChar(c) == IsLower(c) \/ IsUpper(c) \/ IsDigit(c) \/ c = "-"

\* the length of the longest run of [A-Za-z0-9-] in s from index i
IdentRun(s, i) ==
    Least({j \in i..Len(s) : ~IsIdentChar(At(s, j))} \cup {Len(s) + 1}) - i

\* (#.+)?$ from index i: the rest is empty, or # and at least one character, none a newline
VersionSuffixOk(s, i) ==
    \/ i = Len(s) + 1
    \/ /\ i + 1 <= Len(s)
       /\ At(s, i) = "#"
       /\ \A j \in (i + 1)..Len(s) : At(s, j) # "\n"

\* officialPluginRegex.FindStringSubmatch(name): <<>> or <<name, m1, m2>>
officialPluginRegex(name) ==
    LET n == IdentRun(name, 1)
    IN  IF n >= 1 /\ VersionSuffixOk(name, n + 1)
        THEN <<name, SubSeq(name, 1, n), SubSeq(name, n + 1, Len(name))>>
        ELSE <<>>

\* githubPluginRegex matching no name
githubPluginRegexNever(name) == <<>>

\* githubPluginRegex.FindStringSubmatch(name): <<>> or <<name, m1, m2>>
githubPluginRegex(name) ==
    LET n == IdentRun(name, 1)
        k == IF n >= 1 /\ n + 1 <= Len(name) /\ At(name, n + 1) = "/"
             THEN IdentRun(name, n + 2) ELSE 0
    IN  IF k >= 1 /\ VersionSuffixOk(name, n + k + 2)
        THEN <<name, SubSeq(name, 1, n + k + 1), SubSeq(name, n + k + 2, Len(name))>>
        ELSE <<>>

\* type Plugin struct { Name string; Params map[string]any }  (Params: Nil or a map)
Plugin(name, params) == [Name |-> name, Params |-> params]

\* The outcomes of NewPluginFromReference(item): a map with several keys yields the
\* entry its range visits first, whichever that is.
NewPluginFromReference(item) ==
    CASE item.k = "string" -> {Ok(Plugin(item.s, Nil))}
      [] item.k = "map" /\ DOMAIN item.m # {} ->
            {Ok(Plugin(name, IF item.m[name].k = "map" THEN item.m[name] ELSE Nil)) :
                name \in DOMAIN item.m}
      [] OTHER -> {Err("unknown plugin reference type")}

\* Repository answering the name as it was written
RepositoryAsWritten(p) == p.Name

\* func (p Plugin) Repository() string
Repository(p) ==
    LET m == officialPluginRegex(p.Name)
        g == githubPluginRegex(p.Name)
    IN  IF Len(m) = 3
        THEN "github.com/buildkite-plugins/" \o m[2] \o "-buildkite-plugin" \o m[3]
        ELSE IF Len(g) = 3
        THEN "github.com/" \o g[2] \o "-buildkite-plugin" \o g[3]
        ELSE p.Name

RECURSIVE PluginMaps(_)
PluginMaps(plugins) ==
    IF Len(plugins) = 0 THEN <<>>
    ELSE <<Map1(Repository(plugins[1]), plugins[1].Params)>> \o PluginMaps(Tail(plugins))

\* marshalPlugins(plugins []Plugin): `var p []any` stays nil when there is no plugin
marshalPlugins(plugins) ==
    IF Len(plugins) = 0 THEN "null" ELSE Marshal(Slice(PluginMaps(plugins)))

\* The keys getPluginPair(pluginReference) can return: the key its range visits
\* first, or "" for an empty or nil map.
getPluginPair(pluginReference) ==
    IF pluginReference.k = "map" /\ DOMAIN pluginReference.m # {}
    THEN DOMAIN pluginReference.m ELSE {""}

\* the comparison of sort.Slice's less can be true / can be false
MayLess(a, b) == \E x \in getPluginPair(a) : \E y \in getPluginPair(b) : StrLess(x, y)
MayNotLess(a, b) == \E x \in getPluginPair(a) : \E y \in getPluginPair(b) : ~StrLess(x, y)

\* the inner loop of the insertion sort: x, placed after `sorted`, moves left while less
RECURSIVE InsertOutcomes(_, _)
InsertOutcomes(sorted, x) ==
    IF Len(sorted) = 0 THEN {<<x>>}
    ELSE LET last == sorted[Len(sorted)]
             front == SubSeq(sorted, 1, Len(sorted) - 1)
         IN  (IF MayNotLess(x, last) THEN {Append(sorted, x)} ELSE {})
             \cup (IF MayLess(x, last)
                   THEN {Append(s, last) : s \in InsertOutcomes(front, x)} ELSE {})

\* the insertion sort of sort.Slice on the first n elements (it keeps the order of
\* entries with equal keys)
RECURSIVE SortSlice(_, _)
SortSlice(plugins, n) ==
    IF n = 0 THEN {<<>>}
    ELSE UNION {InsertOutcomes(sorted, plugins[n]) : sorted \in SortSlice(plugins, n - 1)}

\* the pass with gap 6 that sort.Slice of the Go releases before 1.19 (go.mod names
\* 1.17) makes over a slice of up to 12 elements before its insertion sort: from index
\* i on, an element less than the one six places before it changes places with it
RECURSIVE ShellSortPass(_, _)
ShellSortPass(plugins, i) ==
    IF i > Len(plugins) THEN {plugins}
    ELSE (IF MayNotLess(plugins[i], plugins[i - 6])
          THEN ShellSortPass(plugins, i + 1) ELSE {})
         \cup (IF MayLess(plugins[i], plugins[i - 6])
               THEN ShellSortPass([plugins EXCEPT ![i] = plugins[i - 6],
                                                  ![i - 6] = plugins[i]], i + 1)
               ELSE {})

\* sort.Slice(plugins, less) for a slice of up to 12 elements, in the releases of Go
\* the module builds with: the insertion sort alone (1.19 and later) or the pass with
\* gap 6 and then the insertion sort (1.17, 1.18)
SortSliceOutcomes(plugins) ==
    SortSlice(plugins, Len(plugins))
    \cup UNION {SortSlice(passed, Len(passed)) : passed \in ShellSortPass(plugins, 7)}

\* json.Unmarshal(pluginJSON, &plugins) for plugins of type []map[string]any:
\* null or an array whose elements are objects or null
UnmarshalPlugins(pluginJSON) ==
    LET Typed(u) ==
            IF ~u.ok THEN Err("invalid plugin JSON")
            ELSE IF u.v.k = "nil" THEN Ok(Nil)
            ELSE IF u.v.k = "slice" /\ \A i \in 1..Len(u.v.l) : u.v.l[i].k \in {"map", "nil"}
            THEN Ok(u.v)
            ELSE Err("invalid plugin JSON")
    IN  Typed(Unmarshal(pluginJSON))

\* The outcomes of canonicalisePluginJSON(pluginJSON)
canonicalisePluginJSON(pluginJSON) ==
    LET Sorted(u) ==
            IF u.r = "error" THEN {u}
            ELSE IF u.v.k = "nil" THEN {Ok("null")}
            ELSE {Ok(Marshal(Slice(sorted))) : sorted \in SortSliceOutcomes(u.v.l)}
    IN  Sorted(UnmarshalPlugins(pluginJSON))

(* ------------------------------------------------------------------ *)
(* signer.go                                                          *)
(* ------------------------------------------------------------------ *)
stepSignatureEnv == "STEP_SIGNATURE"
buildkiteBuildIDEnv == "BUILDKITE_BUILD_ID"

\* NewSharedSecretSigner(secret): both function fields nil
NewSharedSecretSigner(secret) ==
    [secret |-> secret, signerFunc |-> "nil", unsignedCommandValidatorFunc |-> "nil"]

\* stands for the byte 0x00
Nul == "¤"

\* sha256.BlockSize, the block size of the hash that hmac.New is given
BlockSize == 64

\* sha256.Sum256(data), taken as collision-free: a one-to-one rendering of data
Sha256Sum(data) == "sum(" \o data \o ")"

\* n zero bytes
RECURSIVE Zeros(_)
Zeros(n) == IF n <= 0 THEN "" ELSE Nul \o Zeros(n - 1)

\* The key block of hmac.New(sha256.New, key): a key longer than the block size is
\* replaced by its digest, and the key is padded with zero bytes to the block size.
HmacKey(key) ==
    LET Padded(k) == k \o Zeros(BlockSize - Len(k))
    IN  Padded(IF Len(key) > BlockSize THEN Sha256Sum(key) ELSE key)

\* The hex digest of HMAC-SHA256 under `key` of `message`, taken as collision-free:
\* a one-to-one rendering of the pair (key block, message).
HmacSha256Hex(key, message) ==
    LET Rendered(k) == Itoa(Len(k)) \o "." \o k \o message
    IN  Rendered(HmacKey(key))

\* signData with the command left out of the digest
signDataWithoutCommand(s, environ, command, pluginJSON) ==
    "sha256:" \o HmacSha256Hex(s.secret, environ[buildkiteBuildIDEnv] \o pluginJSON)

\* signData with BUILDKITE_BUILD_ID left out of the digest
signDataWithoutBuildId(s, environ, command, pluginJSON) ==
    "sha256:" \o HmacSha256Hex(s.secret, TrimSpace(command) \o pluginJSON)

\* signData(command, pluginJSON); environ is the process environment
signData(s, environ, command, pluginJSON) ==
    "sha256:" \o HmacSha256Hex(s.secret,
        TrimSpace(command) \o environ[buildkiteBuildIDEnv] \o pluginJSON)

\* the signature function the tests put in signerFunc
StubSignature == "llamas"

\* signerFunc := s.signerFunc; if signerFunc == nil { signerFunc = s.signData }
signerFunc(s, environ, command, pluginJSON) ==
    IF s.signerFunc = "nil" THEN signData(s, environ, command, pluginJSON)
    ELSE StubSignature

\* value.Index(i).Elem().String() of an element of a command list
ElemString(v) ==
    CASE v.k = "string" -> v.s
      [] v.k = "nil" -> "<invalid Value>"
      [] OTHER -> "<" \o GoTypeName(v) \o " Value>"

RECURSIVE ElemStrings(_)
ElemStrings(l) ==
    IF Len(l) = 0 THEN <<>> ELSE <<ElemString(l[1])>> \o ElemStrings(Tail(l))

\* extractCommand keeping the first element of a command list only
extractCommandFirstOnly(command) ==
    CASE command.k = "slice" -> Ok(IF Len(command.l) = 0 THEN "" ELSE ElemString(command.l[1]))
      [] command.k = "string" -> Ok(command.s)
      [] OTHER -> Err("unexpected type for command")

\* extractCommand(command any) (string, error)
extractCommand(command) ==
    CASE command.k = "slice" -> Ok(Join(ElemStrings(command.l), "\n"))
      [] command.k = "string" -> Ok(Join(<<command.s>>, "\n"))
      [] OTHER -> Err("unexpected type for command")

\* the []Plugin lists the loop over an array of plugin references can build,
\* or the error of the first reference that fails
RECURSIVE ParseReferences(_)
ParseReferences(items) ==
    IF Len(items) = 0 THEN {Ok(<<>>)}
    ELSE UNION {IF first.r = "error" THEN {first}
                ELSE {IF rest.r = "error" THEN rest ELSE Ok(<<first.v>> \o rest.v) :
                        rest \in ParseReferences(Tail(items))} :
                first \in NewPluginFromReference(items[1])}

\* parsed, for the keys of the map syntax visited in `order`
RECURSIVE ParseMapSyntax(_, _)
ParseMapSyntax(m, order) ==
    IF Len(order) = 0 THEN <<>>
    ELSE LET plugin == CHOOSE o \in NewPluginFromReference(Map1(order[1], m[order[1]])) : TRUE
         IN  <<plugin.v>> \o ParseMapSyntax(m, Tail(order))

\* The outcomes of extractPlugins(plugins any) (string, error)
extractPlugins(plugins) ==
    LET parsed ==
            CASE plugins.k = "slice" -> ParseReferences(plugins.l)
              [] plugins.k = "map" ->
                    {Ok(ParseMapSyntax(plugins.m, order)) : order \in Orders(DOMAIN plugins.m)}
              [] OTHER -> {Err("unknown plugin type")}
    IN  UNION {IF p.r = "error" THEN {p} ELSE canonicalisePluginJSON(marshalPlugins(p.v)) :
                p \in parsed}

\* addSignature answering a fresh mapping that holds the signature alone
addSignatureDroppingEnv(env, signature) == Ok(Map1(stepSignatureEnv, Str(signature)))

\* addSignature(env any, signature Signature) (any, error)
addSignature(env, signature) ==
    LET e == IF env.k = "nil" THEN EmptyMap ELSE env
    IN  CASE e.k = "slice" ->
                Ok(Slice(Append(e.l, Str(stepSignatureEnv \o "=" \o signature))))
          [] e.k = "map" -> Ok(MapSet(e, stepSignatureEnv, Str(signature)))
          [] OTHER -> Err("unknown environment type")

\* a step that is signed even when it has neither a command nor plugins
NothingToSignNever(rawCommand, extractedPlugins) == FALSE

\* `rawCommand == "" && extractedPlugins == ""`: no plugins or commands, nothing to do
NothingToSign(rawCommand, extractedPlugins) ==
    rawCommand = Str("") /\ extractedPlugins = ""

RECURSIVE Sign(_, _, _)
RECURSIVE maybeSignElements(_, _, _, _)
RECURSIVE SignSteps(_, _, _, _)
RECURSIVE signStep(_, _, _)
RECURSIVE SignKeys(_, _, _, _, _)

\* the group branch of signStep handing the step on with its nested steps unsigned
signGroupUnsigned(s, environ, copy) == {Ok(copy)}

\* the group branch of signStep putting a signature into the env of the group step
signGroupSigned(s, environ, copy) ==
    {IF g.r = "ok"
     THEN Ok(MapSet(MapSet(copy, "steps", MapGet(g.v, "steps")), "env",
                    Map1(stepSignatureEnv, Str(signData(s, environ, "", "")))))
     ELSE Panic :
        g \in Sign(s, environ, Map1("steps", MapGet(copy, "steps")))}

\* The group branch of signStep: Sign on {steps: copy["steps"]}, its steps put back;
\* signedGroup.(map[string]any) panics on the nil interface that Sign answers with
\* an error.
signGroup(s, environ, copy) ==
    {IF g.r = "ok" THEN Ok(MapSet(copy, "steps", MapGet(g.v, "steps"))) ELSE Panic :
        g \in Sign(s, environ, Map1("steps", MapGet(copy, "steps")))}

\* The outcomes of signStep(step): the signed copy, an error or a panic.
signStep(s, environ, step) ==
    IF step.k = "nil" THEN {Err("nil interface provided")}
    ELSE IF step.k # "map" THEN {Panic}   \* original.MapKeys() of a non-map
    ELSE
    LET copy == step
        rawCommand == IF HasKey(copy, "command") THEN copy.m["command"]
                      ELSE IF HasKey(copy, "commands") THEN copy.m["commands"]
                      ELSE Str("")
    IN  IF HasKey(copy, "group")
        THEN signGroup(s, environ, copy)
        ELSE
        LET extracted == IF HasKey(copy, "plugins")
                         THEN extractPlugins(copy.m["plugins"]) ELSE {Ok("")}
        IN  {IF x.r = "error" THEN x
             ELSE IF NothingToSign(rawCommand, x.v) THEN Ok(copy)
             ELSE LET c == extractCommand(rawCommand)
                  IN  IF c.r = "error" THEN c
                      ELSE LET signature == signerFunc(s, environ, c.v, x.v)
                               env == addSignature(MapGet(copy, "env"), signature)
                           IN  IF env.r = "error" THEN env
                               ELSE Ok(MapSet(copy, "env", env.v)) :
                x \in extracted}

\* the loop of maybeSignElements leaving the plain strings out of newSteps
RECURSIVE SignStepsDroppingStrings(_, _, _, _)
SignStepsDroppingStrings(s, environ, steps, acc) ==
    IF Len(steps) = 0 THEN {Ok(Slice(acc))}
    ELSE IF steps[1].k = "string" THEN SignStepsDroppingStrings(s, environ, Tail(steps), acc)
    ELSE UNION {IF signedStep.r = "ok"
                THEN SignStepsDroppingStrings(s, environ, Tail(steps), Append(acc, signedStep.v))
                ELSE {signedStep} :
                signedStep \in signStep(s, environ, steps[1])}

\* the loop of maybeSignElements over steps[i..]: newSteps so far is acc
SignSteps(s, environ, steps, acc) ==
    IF Len(steps) = 0 THEN {Ok(Slice(acc))}
    ELSE IF steps[1].k = "string" THEN SignSteps(s, environ, Tail(steps), Append(acc, steps[1]))
    ELSE UNION {IF signedStep.r = "ok"
                THEN SignSteps(s, environ, Tail(steps), Append(acc, signedStep.v))
                ELSE {signedStep} :
                signedStep \in signStep(s, environ, steps[1])}

\* The outcomes of maybeSignElements(keyName, item)
maybeSignElements(s, environ, keyName, item) ==
    IF ~EqualFold(keyName, "steps") THEN {Ok(item)}
    ELSE IF item.k # "slice" THEN {Ok(item)}
    ELSE SignSteps(s, environ, item.l, <<>>)

\* the loop of Sign over the keys in `order`, from index i: copy so far is acc
SignKeys(s, environ, original, order, acc) ==
    IF Len(order) = 0 THEN {Ok(acc)}
    ELSE UNION {IF elem.r = "ok"
                THEN SignKeys(s, environ, original, Tail(order), MapSet(acc, order[1], elem.v))
                ELSE {elem} :
                elem \in maybeSignElements(s, environ, order[1], original.m[order[1]])}

\* Sign taking a mapping for a single step and signing it
SignSingleStep(s, environ, pipeline) ==
    IF pipeline.k # "map" THEN {Ok(pipeline)} ELSE signStep(s, environ, pipeline)

\* The outcomes of Sign(pipeline any) (any, error)
Sign(s, environ, pipeline) ==
    IF pipeline.k # "map" THEN {Ok(pipeline)}
    ELSE UNION {SignKeys(s, environ, pipeline, order, EmptyMap) :
                order \in Orders(DOMAIN pipeline.m)}

(* ------------------------------------------------------------------ *)
(* unsigned_commands.go                                               *)
(* ------------------------------------------------------------------ *)
posixSpecialChars == "!\"#$&'()*,;<=>?[]\\^" \o Backtick \o "{}|~"
batchSpecialChars == "^&;,=%"

\* a host is [goos |-> runtime.GOOS, args0 |-> os.Args[0]]
\* filepath.Base(path) for a path that does not end in a separator
Base(host, path) ==
    LET seps == IF host.goos = "windows" THEN {"/", "\\", ":"} ELSE {"/"}
        cut == {i \in 1..Len(path) : At(path, i) \in seps}
    IN  IF path = "" THEN "."
        ELSE IF cut = {} THEN path
        ELSE SubSeq(path, (CHOOSE i \in cut : \A j \in cut : j <= i) + 1, Len(path))

\* getToolNames() []string
getToolNames(host) ==
    LET thisTool == Base(host, host.args0)
    IN  IF host.goos = "windows"
        THEN <<thisTool, TrimSuffix(thisTool, ".exe")>>
        ELSE <<thisTool>>

\* isUploadCommand(command string) bool
isUploadCommand(host, command) ==
    \/ \E i \in 1..Len(getToolNames(host)) :
            HasPrefix(command, getToolNames(host)[i] \o " upload")
    \/ HasPrefix(command, "buildkite-agent pipeline upload")

\* hasSpecialShellChars(str string) bool
hasSpecialShellChars(host, str) ==
    IF host.goos = "windows" THEN ContainsAny(str, batchSpecialChars)
    ELSE ContainsAny(str, posixSpecialChars)

\* IsUnsignedCommandOk(command string) (bool, error): the error is always nil
IsUnsignedCommandOk(host, command) ==
    IF ~isUploadCommand(host, command) THEN FALSE
    ELSE ~hasSpecialShellChars(host, command)

(* ------------------------------------------------------------------ *)
(* signer.go: Verify                                                  *)
(* ------------------------------------------------------------------ *)
ErrNil == "nil"
ErrSignatureMissing == "Signature missing. The provided command is not permitted to be unsigned"
ErrSignatureMismatch == "Signature mismatch. Perhaps check the shared secret is the same across agents?"
ErrValidator == "validator error"

\* the condition of Verify's first branch without its test of pluginJSON
IsUnsignedCommandIgnoringPlugins(command, pluginJSON, expected) ==
    expected = "" /\ command # ""

\* the condition of Verify's first branch
IsUnsignedCommand(command, pluginJSON, expected) ==
    expected = "" /\ pluginJSON = "" /\ command # ""

\* validatorFunc(command): <<isAllowed, err>>; the functions the tests put in
\* unsignedCommandValidatorFunc answer true, false or an error
validatorFunc(s, host, command) ==
    CASE s.unsignedCommandValidatorFunc = "nil" -> <<IsUnsignedCommandOk(host, command), ErrNil>>
      [] s.unsignedCommandValidatorFunc = "true" -> <<TRUE, ErrNil>>
      [] s.unsignedCommandValidatorFunc = "false" -> <<FALSE, ErrNil>>
      [] OTHER -> <<FALSE, ErrValidator>>

\* what a call of Verify did: the error it returned, how often it called the
\* allow-list predicate and the digest function, and the digest's input and output
Verdict(err, validatorCalls, signerCalls, pluginJSON, signature) ==
    [err |-> err, validatorCalls |-> validatorCalls, signerCalls |-> signerCalls,
     pluginJSON |-> pluginJSON, signature |-> signature]

\* Verify's first branch allowing whatever the predicate answers
VerifyUnsignedAllowingAll(s, host, command) == Verdict(ErrNil, 1, 0, "", "")

\* the outcome of Verify's first branch
VerifyUnsigned(s, host, command) ==
    LET v == validatorFunc(s, host, command)
    IN  IF v[2] # ErrNil THEN Verdict(v[2], 1, 0, "", "")
        ELSE IF v[1] THEN Verdict(ErrNil, 1, 0, "", "")
        ELSE Verdict(ErrSignatureMissing, 1, 0, "", "")

\* Verify from the call of signerFunc on, pluginJSON being canonical
VerifySigned(s, environ, command, pluginJSON, expected) ==
    LET signature == signerFunc(s, environ, command, pluginJSON)
    IN  IF signature # expected
        THEN Verdict(ErrSignatureMismatch, 0, 1, pluginJSON, signature)
        ELSE Verdict(ErrNil, 0, 1, pluginJSON, signature)

\* The outcomes of Verify(command, pluginJSON, expected)
Verify(s, host, environ, command, pluginJSON, expected) ==
    IF IsUnsignedCommand(command, pluginJSON, expected)
    THEN {VerifyUnsigned(s, host, command)}
    ELSE IF pluginJSON # ""
    THEN {IF c.r = "error" THEN Verdict(c.e, 0, 0, "", "")
          ELSE VerifySigned(s, environ, command, c.v, expected) :
            c \in canonicalisePluginJSON(pluginJSON)}
    ELSE {VerifySigned(s, environ, command, pluginJSON, expected)}

(* ------------------------------------------------------------------ *)
(* the secret store                                                   *)
(* ------------------------------------------------------------------ *)
\* getAwsSmSecretRegion finding a region in no identifier
getAwsSmSecretRegionNone(secretId) == <<"", FALSE>>

\* getAwsSmSecretRegion(secretId) (string, bool): the first submatch of
\* ^arn:aws:secretsmanager:([^:]+):
getAwsSmSecretRegion(secretId) ==
    LET Region(start, colon) ==
            IF HasPrefix(secretId, "arn:aws:secretsmanager:") /\ start < colon
               /\ colon <= Len(secretId)
            THEN <<SubSeq(secretId, start, colon - 1), TRUE>>
            ELSE <<"", FALSE>>
        From(start) ==
            Region(start, Least({n \in start..Len(secretId) : At(secretId, n) = ":"}
                                \cup {Len(secretId) + 1}))
    IN  From(Len("arn:aws:secretsmanager:") + 1)

(* ------------------------------------------------------------------ *)
(* main.go: the upload and verify commands, and the jobs between them  *)
(* ------------------------------------------------------------------ *)
VARIABLES
    pc,        \* where the run is: "upload", "sign", "signed", "delivered", "verified", ...
    signer,    \* the SharedSecretSigner of the upload, built from its shared secret
    verifier,  \* the SharedSecretSigner of the agent that verifies
    host,      \* [goos, args0] of the agent that verifies
    environ,   \* the environment of the uploading process
    pipeline,  \* the document handed to upload
    plugins,   \* a plugin set handed to extractPlugins (map syntax)
    runs,      \* the outcomes of the runs of Sign / extractPlugins so far
    signed,    \* [command, plugins, signature]: a signing input and its signature
    job,       \* the environment of the job handed to verify
    result     \* what verify (or the allow-list predicate) answered

vars == <<pc, signer, verifier, host, environ, pipeline, plugins, runs, signed, job, result>>

\* bounds of the model
MaxPlugins == 2    \* entries in a plugins array / keys in a plugins mapping
MaxRuns == 2       \* runs of Sign (of extractPlugins) on one document

Secrets == {"secret-llamas", "secret-alpacas"}
BuildIds == {"", "1"}
Environ(buildId) == [BUILDKITE_BUILD_ID |-> buildId]

LinuxHost == [goos |-> "linux", args0 |-> "/usr/local/bin/buildkite-signed-pipeline"]
Hosts ==
    {LinuxHost,
     [goos |-> "linux", args0 |-> "buildkite-signed-pipeline"],
     [goos |-> "windows", args0 |-> "C:\\buildkite\\buildkite-signed-pipeline.exe"],
     [goos |-> "windows", args0 |-> "buildkite-signed-pipeline"]}

\* plugin references as a pipeline author writes them
DockerA == Map1("docker#v1", Map1("image", Str("a")))
DockerB == Map1("buildkite-plugins/docker#v1", Map1("image", Str("b")))
Custom == Map1("seek-oss/custom-plugin", Nil)
DockerTwo == Map1("docker#v2", Map1("image", Str("a")))
Unqualified == Map1("ssh://git@example.com/plugin.git", Nil)
Compose == Map1("docker-compose#v3", Map1("run", Str("app")))
TwoKeys == Map2("docker#v1", Nil, "seek-oss/custom-plugin", Nil)

\* sequences over S of length at most n
RECURSIVE SeqsUpTo(_, _)
SeqsUpTo(S, n) ==
    IF n = 0 THEN {<<>>}
    ELSE SeqsUpTo(S, n - 1)
         \cup {Append(q, x) : q \in {r \in SeqsUpTo(S, n - 1) : Len(r) = n - 1}, x \in S}

\* the single-key mappings merged into one mapping (later keys win)
RECURSIVE MergeMaps(_)
MergeMaps(q) ==
    IF Len(q) = 0 THEN EmptyMap
    ELSE LET rest == MergeMaps(SubSeq(q, 1, Len(q) - 1))
             last == q[Len(q)]
             key == CHOOSE x \in DOMAIN last.m : TRUE
         IN  MapSet(rest, key, last.m[key])

\* plugin sets in map syntax: up to MaxPlugins keys out of `entries`
MapSyntax(entries) == {MergeMaps(q) : q \in SeqsUpTo(entries, MaxPlugins) \ {<<>>}}

PluginSets ==
    MapSyntax({DockerA, DockerB, Custom, DockerTwo, Unqualified, Compose}
              \cup {Map1(name, Nil) :
                      name \in {"docker", "my-org/my-plugin#v1.2.3", "a/b/c", "my_plugin#v1",
                                "docker#", "", "./local#v1",
                                "github.com/buildkite-plugins/docker-buildkite-plugin#v1"}})

\* the plugins declarations of a step: array syntax and map syntax
Declarations ==
    {Slice(<<>>), Slice(<<Str("docker#v1")>>), Slice(<<DockerA>>), Slice(<<TwoKeys>>),
     Slice(<<DockerA, DockerB>>), Slice(<<DockerB, DockerA>>), Slice(<<DockerA, Custom>>),
     Slice(<<Custom, DockerA>>), Slice(<<Str("docker#v1"), Compose>>),
     Slice(<<TwoKeys, DockerB>>)}
    \cup MapSyntax({DockerA, DockerB, Custom})

Steps ==
    {Map1("command", Str("x")), Map1("command", Slice(<<Str(" x"), Str("y\n")>>)),
     Map1("label", Str("x")), Map2("commands", Str("x"), "env", Map1("A", Str("b")))}
    \cup {Map1("plugins", d) : d \in MapSyntax({DockerA, DockerB, Custom})}
    \cup {Map2("command", Str("x"), "plugins", d) : d \in Declarations}

Pipelines == {Map1("steps", Slice(<<step>>)) : step \in Steps}

NoJob == [BUILDKITE_COMMAND |-> "", BUILDKITE_PLUGINS |-> "", STEP_SIGNATURE |-> "",
          BUILDKITE_BUILD_ID |-> ""]
NoSigned == [command |-> "", plugins |-> "", signature |-> ""]
NoResult == Verdict("none", 0, 0, "", "")

\* ---- the service between upload and verify ----

\* the references of a plugins declaration, one per key of every mapping
RECURSIVE Qualified(_)
Qualified(items) ==
    IF Len(items) = 0 THEN {<<>>}
    ELSE LET item == items[1]
             firsts == IF item.k = "string" THEN {<<Map1(Repository(Plugin(item.s, Nil)), Nil)>>}
                       ELSE {PluginMaps([i \in 1..Len(order) |->
                                            Plugin(order[i], item.m[order[i]])]) :
                                order \in Orders(DOMAIN item.m)}
         IN  {f \o rest : f \in firsts, rest \in Qualified(Tail(items))}

\* the transport JSON of a step's plugins: the qualified references with the
\* parameters as authored, the entries in any order
TransportJSON(declaration) ==
    LET lists == IF declaration.k = "slice" THEN Qualified(declaration.l)
                 ELSE Qualified(<<declaration>>)
    IN  UNION {{Marshal(Slice([i \in 1..Len(order) |-> q[order[i]]])) :
                    order \in Orders(1..Len(q))} : q \in lists}

\* the job of a step of an uploaded pipeline: its commands joined by newlines, its
\* plugins as transport JSON, the STEP_SIGNATURE of its env, the build of the upload
JobsOf(step, buildId) ==
    LET raw == IF HasKey(step, "command") THEN step.m["command"]
               ELSE IF HasKey(step, "commands") THEN step.m["commands"]
               ELSE Str("")
        env == MapGet(step, "env")
        sig == IF HasKey(env, stepSignatureEnv) THEN env.m[stepSignatureEnv].s ELSE ""
        transports == IF HasKey(step, "plugins") THEN TransportJSON(step.m["plugins"])
                      ELSE {""}
    IN  {[BUILDKITE_COMMAND |-> extractCommand(raw).v, BUILDKITE_PLUGINS |-> pluginJSON,
          STEP_SIGNATURE |-> sig, BUILDKITE_BUILD_ID |-> buildId] : pluginJSON \in transports}

\* ---- actions ----

\* uploadCommand.run: Sign the parsed pipeline and pipe its JSON on; an error is fatal
Upload ==
    /\ pc = "upload"
    /\ Len(runs) < MaxRuns
    /\ \E o \in Sign(signer, environ, pipeline) :
          runs' = Append(runs, IF o.r = "ok" THEN Ok(Marshal(o.v)) ELSE o)
    /\ UNCHANGED <<pc, signer, verifier, host, environ, pipeline, plugins, signed, job, result>>

\* the jobs of the steps that run something, of a pipeline that upload piped on
JobsOfUpload(outputJSON, buildId) ==
    LET steps == Unmarshal(outputJSON).v.m["steps"].l
    IN  UNION {IF HasKey(steps[n], "command") \/ HasKey(steps[n], "commands")
                    \/ HasKey(steps[n], "plugins")
               THEN JobsOf(steps[n], buildId) ELSE {} :
                n \in 1..Len(steps)}

\* a step of a pipeline that was uploaded becomes a job
Dispatch ==
    /\ pc = "upload"
    /\ \E i \in 1..Len(runs) :
          /\ runs[i].r = "ok"
          /\ job' \in JobsOfUpload(runs[i].v, environ[buildkiteBuildIDEnv])
    /\ pc' = "delivered"
    /\ UNCHANGED <<signer, verifier, host, environ, pipeline, plugins, runs, signed, result>>

\* verifyCommand.run
RunVerify ==
    /\ pc = "delivered"
    /\ IF job.BUILDKITE_COMMAND = "" /\ job.BUILDKITE_PLUGINS = ""
       THEN result' = Verdict(ErrNil, 0, 0, "", "")
       ELSE result' \in Verify(verifier, host, job, job.BUILDKITE_COMMAND,
                               job.BUILDKITE_PLUGINS, job.STEP_SIGNATURE)
    /\ pc' = "verified"
    /\ UNCHANGED <<signer, verifier, host, environ, pipeline, plugins, runs, signed, job>>

\* signStep, from `signature, err := signerFunc(command, plugins)`
SignInput ==
    /\ pc = "sign"
    /\ signed' = [signed EXCEPT
                    !.signature = signerFunc(signer, environ, signed.command, signed.plugins)]
    /\ pc' = "signed"
    /\ UNCHANGED <<signer, verifier, host, environ, pipeline, plugins, runs, job, result>>

\* the job reaches an agent with the signature, and with a command, plugins and a
\* build id that the party in the middle chose
Deliver(command, pluginJSON, buildId) ==
    /\ pc = "signed"
    /\ job' = [BUILDKITE_COMMAND |-> command, BUILDKITE_PLUGINS |-> pluginJSON,
               STEP_SIGNATURE |-> signed.signature, BUILDKITE_BUILD_ID |-> buildId]
    /\ pc' = "delivered"
    /\ UNCHANGED <<signer, verifier, host, environ, pipeline, plugins, runs, signed, result>>

\* SharedSecretSigner.Verify on the job
CallVerify ==
    /\ pc = "delivered"
    /\ result' \in Verify(verifier, host, job, job.BUILDKITE_COMMAND,
                          job.BUILDKITE_PLUGINS, job.STEP_SIGNATURE)
    /\ pc' = "verified"
    /\ UNCHANGED <<signer, verifier, host, environ, pipeline, plugins, runs, signed, job>>

\* IsUnsignedCommandOk on the job's command
CheckUnsigned ==
    /\ pc = "delivered"
    /\ result' = IsUnsignedCommandOk(host, job.BUILDKITE_COMMAND)
    /\ pc' = "checked"
    /\ UNCHANGED <<signer, verifier, host, environ, pipeline, plugins, runs, signed, job>>

\* the plugin set as an array of single-key mappings, in the given order of keys
ArraySyntax(m, order) == Slice([i \in 1..Len(order) |-> Map1(order[i], m[order[i]])])

\* extractPlugins on the plugin set written as an array, in some order
ExtractArray ==
    /\ pc = "extract"
    /\ Len(runs) < MaxRuns
    /\ \E order \in Orders(DOMAIN plugins.m) :
          \E o \in extractPlugins(ArraySyntax(plugins.m, order)) :
             runs' = Append(runs, [syntax |-> "array", out |-> o])
    /\ UNCHANGED <<pc, signer, verifier, host, environ, pipeline, plugins, signed, job, result>>

\* extractPlugins on the plugin set written as one mapping
ExtractMap ==
    /\ pc = "extract"
    /\ Len(runs) < MaxRuns
    /\ \E o \in extractPlugins(plugins) : runs' = Append(runs, [syntax |-> "map", out |-> o])
    /\ UNCHANGED <<pc, signer, verifier, host, environ, pipeline, plugins, signed, job, result>>

\* ---- upload, then the jobs of the uploaded steps, then verify ----
Init ==
    /\ pc = "upload"
    /\ signer \in {NewSharedSecretSigner(secret) : secret \in Secrets}
    /\ verifier = signer
    /\ host = LinuxHost
    /\ environ \in {Environ(b) : b \in BuildIds}
    /\ pipeline \in Pipelines
    /\ plugins = EmptyMap
    /\ runs = <<>>
    /\ signed = NoSigned
    /\ job = NoJob
    /\ result = NoResult

Next == Upload \/ Dispatch \/ RunVerify

Spec == Init /\ [][Next]_vars

\* ---- one signing input, a job that carries its signature, Verify ----
\* canonical plugin JSON as signStep hands it to signerFunc ("" when the step has no plugins)
SignedDeclarations ==
    {Slice(q) : q \in SeqsUpTo({DockerA, DockerB}, MaxPlugins)} \cup {Slice(<<DockerA, Custom>>)}

CanonicalPlugins ==
    {""} \cup UNION {{o.v : o \in extractPlugins(d)} : d \in SignedDeclarations}

\* what BUILDKITE_PLUGINS can hold
JobPlugins ==
    {"", "{}", "null"}
    \cup UNION {TransportJSON(d) :
                   d \in SignedDeclarations
                         \cup {Slice(<<Map1("docker#v1", Map1("image", Str("evil")))>>)}}

SignedCommands == {"x", " x\n", ""}
JobCommands == {"x", " x\n", "x1", ""}

InitVerify ==
    /\ pc = "sign"
    /\ signer \in {NewSharedSecretSigner(secret) : secret \in Secrets}
    /\ verifier = signer
    /\ host = LinuxHost
    /\ environ \in {Environ(b) : b \in BuildIds}
    /\ pipeline = Nil
    /\ plugins = EmptyMap
    /\ runs = <<>>
    /\ signed \in {[command |-> c, plugins |-> p, signature |-> ""] :
                     c \in SignedCommands, p \in CanonicalPlugins}
    /\ ~(signed.command = "" /\ signed.plugins = "")
    /\ job = NoJob
    /\ result = NoResult

NextVerify ==
    \/ SignInput
    \/ \E c \in JobCommands, p \in JobPlugins, b \in BuildIds : Deliver(c, p, b)
    \/ CallVerify

SpecVerify == InitVerify /\ [][NextVerify]_vars

\* ---- Verify on any job, with the signer as built or with the functions of the tests ----
Signers ==
    {[secret |-> "secret-llamas", signerFunc |-> f, unsignedCommandValidatorFunc |-> v] :
        f \in {"nil", "stub"}, v \in {"nil", "true", "false", "error"}}

InitJob ==
    /\ pc = "delivered"
    /\ signer \in Signers
    /\ verifier = signer
    /\ host \in {LinuxHost, [goos |-> "windows", args0 |-> "buildkite-signed-pipeline"]}
    /\ environ = Environ("1")
    /\ pipeline = Nil
    /\ plugins = EmptyMap
    /\ runs = <<>>
    /\ signed = NoSigned
    /\ job \in {[BUILDKITE_COMMAND |-> c, BUILDKITE_PLUGINS |-> p, STEP_SIGNATURE |-> sig,
                 BUILDKITE_BUILD_ID |-> "1"] :
                  c \in {"", "x", "buildkite-signed-pipeline upload",
                         "buildkite-agent pipeline upload \"$PWD\""},
                  p \in {"", "[]", "{}", "[{\"docker#v1\":null}]"},
                  sig \in {"", StubSignature,
                           signData(NewSharedSecretSigner("secret-llamas"), Environ("1"),
                                    "x", "[{\"docker#v1\":null}]")}}
    /\ result = NoResult

NextJob == CallVerify

SpecJob == InitJob /\ [][NextJob]_vars

\* ---- the allow-list predicate on any command ----
UnsignedCommands ==
    LET UploadPrefixes ==
            {"buildkite-signed-pipeline upload", "buildkite-signed-pipeline.exe upload",
             "buildkite-agent pipeline upload", "something-naughty",
             "echo buildkite-agent pipeline upload"}
        Arguments ==
            {"", " pipeline.yml", " " \o Backtick \o "rm -rf /" \o Backtick,
             " \"my pipeline.yml\"", " \"$PWD\"", " $PIPELINE", "\nrm -rf /", " | sh",
             " > out", " < in", " && rm -rf /", " %PIPELINE%"}
    IN  {prefix \o argument : prefix \in UploadPrefixes, argument \in Arguments}

InitAllowList ==
    /\ pc = "delivered"
    /\ signer = NewSharedSecretSigner("secret-llamas")
    /\ verifier = signer
    /\ host \in Hosts
    /\ environ = Environ("1")
    /\ pipeline = Nil
    /\ plugins = EmptyMap
    /\ runs = <<>>
    /\ signed = NoSigned
    /\ job \in {[NoJob EXCEPT !.BUILDKITE_COMMAND = c] : c \in UnsignedCommands}
    /\ result = NoResult

NextAllowList == CheckUnsigned

SpecAllowList == InitAllowList /\ [][NextAllowList]_vars

\* ---- extractPlugins on one plugin set, written as an array and as a mapping ----
InitCanon ==
    /\ pc = "extract"
    /\ signer = NewSharedSecretSigner("secret-llamas")
    /\ verifier = signer
    /\ host = LinuxHost
    /\ environ = Environ("1")
    /\ pipeline = Nil
    /\ plugins \in PluginSets
    /\ runs = <<>>
    /\ signed = NoSigned
    /\ job = NoJob
    /\ result = NoResult

NextCanon == ExtractArray \/ ExtractMap

SpecCanon == InitCanon /\ [][NextCanon]_vars

\* ---- Sign on documents of every shape ----
MaxSteps == 2      \* elements of a steps sequence drawn from SequencedSteps

\* The documents handed to Sign: every shape of document, and in a steps sequence
\* every kind of step that signStep tells apart.
Documents ==
    LET CommandStep == Map1("command", Str("x"))
        ListStep == Map1("command", Slice(<<Str("a"), Str("b")>>))
        JoinedStep == Map1("command", Str("a\nb"))
        LabelStep == Map1("label", Str("x"))
        NumberStep == Map1("command", Num(1))
        \* steps that signStep signs
        SignableSteps ==
            {CommandStep, ListStep, JoinedStep,
             Map1("commands", Slice(<<Str("a"), Str("b")>>)),
             Map2("command", Str("x"), "env", Map1("A", Str("b"))),
             Map2("command", Str("x"), "env", Slice(<<Str("A=b"), Str("C=d")>>)),
             Map2("command", Str("x"), "env",
                  Slice(<<Str("A=b"), Str(stepSignatureEnv \o "=old")>>)),
             Map2("command", Str("x"), "env",
                  Map2("A", Str("b"), stepSignatureEnv, Str("old"))),
             Map2("command", Str("x"), "env", Nil),
             Map1("plugins", Slice(<<Map1("docker#v1.4.0", Map1("image", Str("x")))>>)),
             MapSet(MapSet(Map2("command", Str("x"), "label", Str("l")),
                           "plugins", Slice(<<DockerA>>)), "agents", Map1("queue", Str("q")))}
        \* steps with nothing to sign
        InertSteps ==
            {LabelStep, Map2("block", Str("b"), "prompt", Str("go")),
             Map1("command", Str("")), Map2("commands", Str(""), "label", Str("l")),
             Map2("label", Str("l"), "env", Map1("A", Str("b")))}
        \* steps that signStep answers with an error
        FailingSteps ==
            {NumberStep, Map2("command", Str("x"), "env", Str("bad")),
             Map2("command", Str("x"), "plugins", Slice(<<Num(1)>>)),
             Map2("command", Str("x"), "plugins", Str("docker#v1")), Nil,
             Map1("command", Bool(TRUE)), Map1("command", Nil),
             Map1("commands", Map1("a", Str("b")))}
        \* steps whose command is a sequence with an element that is no string
        MixedSteps ==
            {Map1("command", Slice(<<Str("a"), element>>)) :
                element \in {Num(1), Nil, Bool(TRUE), Slice(<<Str("b")>>)}}
        \* a group step around nested steps
        Group(steps) ==
            MapSet(Map2("group", Str("g"), "label", Str("l")), "steps", Slice(steps))
        GroupSteps ==
            {Group(<<step>>) : step \in SignableSteps \cup {NumberStep}}
            \cup {Group(<<Str("wait"), CommandStep, LabelStep>>),
                  Group(<<Group(<<ListStep>>)>>),
                  Group(<<Group(<<Str("wait"), Group(<<CommandStep>>)>>)>>),
                  Group(<<CommandStep, Group(<<NumberStep>>)>>),
                  Map2("group", Str("g"), "label", Str("l")),
                  Map2("group", Str("g"), "steps", Str("x")),
                  \* group steps with a command, plugins or env of their own
                  MapSet(Group(<<CommandStep>>), "command", Str("x")),
                  MapSet(Group(<<Str("wait")>>), "plugins", Slice(<<DockerA>>)),
                  MapSet(MapSet(Group(<<CommandStep>>), "command", Num(1)),
                         "env", Str("bad")),
                  MapSet(MapSet(Group(<<LabelStep>>), "commands", Str("x")),
                         "env", Map1("A", Str("b"))),
                  MapSet(Group(<<CommandStep>>), "plugins", Slice(<<Num(1)>>))}
        \* steps with plugins in array syntax: references that resolve to one
        \* repository in both orders, and seven references
        Numbered(n) == Map1("docker#v" \o n, Nil)
        PluginSteps ==
            {Map1("plugins", Slice(q)) :
                q \in {<<DockerA, DockerB>>, <<DockerB, DockerA>>, <<Compose, DockerA>>,
                       <<DockerA, DockerB, Numbered("2"), Numbered("3"), Numbered("4"),
                         Numbered("5"), Str("artifacts#v1")>>}}
        \* steps with a plugins declaration that holds no plugin
        EmptyPluginSteps ==
            {Map1("plugins", Slice(<<>>)), Map1("plugins", EmptyMap),
             Map2("command", Str("x"), "plugins", Slice(<<>>)),
             Map2("command", Str("x"), "plugins", EmptyMap)}
        \* two steps that differ in the parameters of their plugin alone
        Parameters ==
            {Map1("image", Str("a")), Map1("image", Str("b")), Map1("image", Num(1)),
             EmptyMap, Nil, Str("a"), Str("b"), Num(1), Slice(<<Str("a")>>)}
        With(parameters) == Map1("plugins", Slice(<<Map1("docker#v1", parameters)>>))
        ParameterPairs ==
            {<<With(p), With(q)>> : p \in Parameters, q \in {Map1("image", Str("a")), Str("a")}}
        \* the elements of the longer steps sequences
        SequencedSteps == {Str("wait"), ListStep, JoinedStep, LabelStep, NumberStep}
    IN  {Str("wait"), Nil, Num(1), Slice(<<CommandStep>>), CommandStep,
         Map1("steps", Str("x")), Map1("steps", CommandStep), Map1("steps", Nil),
         Map2("env", Map1("A", Str("b")), "command", Str("x")),
         MapSet(Map2("env", Map1("A", Str("b")), "agents", Map1("queue", Str("q"))),
                "steps", Slice(<<CommandStep, Str("wait")>>)),
         Map1("Steps", Slice(<<CommandStep>>))}
        \cup {Map1("steps", Slice(<<step>>)) :
                step \in SignableSteps \cup InertSteps \cup FailingSteps \cup GroupSteps
                         \cup PluginSteps \cup MixedSteps \cup EmptyPluginSteps
                         \cup {Num(1), Bool(TRUE), Slice(<<Str("wait")>>)}}
        \cup {Map1("steps", Slice(q)) : q \in SeqsUpTo(SequencedSteps, MaxSteps)}
        \cup {Map1("steps", Slice(q)) : q \in ParameterPairs}

\* a call of Sign on the document, as the tests make it
CallSign ==
    /\ pc = "document"
    /\ Len(runs) < MaxRuns
    /\ \E o \in Sign(signer, environ, pipeline) : runs' = Append(runs, o)
    /\ UNCHANGED <<pc, signer, verifier, host, environ, pipeline, plugins, signed, job, result>>

InitSign ==
    /\ pc = "document"
    /\ signer = NewSharedSecretSigner("secret-llamas")
    /\ verifier = signer
    /\ host = LinuxHost
    /\ environ \in {Environ(b) : b \in BuildIds}
    /\ pipeline \in Documents
    /\ plugins = EmptyMap
    /\ runs = <<>>
    /\ signed = NoSigned
    /\ job = NoJob
    /\ result = NoResult

NextSign == CallSign

SpecSign == InitSign /\ [][NextSign]_vars

\* ---- a signature made under one secret and build, verified under another ----
\* the agent that verifies is started with any secret, one of them the secret of
\* the upload followed by a zero byte
InitContext ==
    /\ pc = "sign"
    /\ signer \in {NewSharedSecretSigner(secret) : secret \in Secrets}
    /\ verifier \in {NewSharedSecretSigner(secret) :
                       secret \in Secrets \cup {"secret-llamas" \o Nul}}
    /\ host = LinuxHost
    /\ environ \in {Environ(b) : b \in BuildIds}
    /\ pipeline = Nil
    /\ plugins = EmptyMap
    /\ runs = <<>>
    /\ signed \in {[command |-> c, plugins |-> p, signature |-> ""] :
                     c \in SignedCommands, p \in CanonicalPlugins}
    /\ ~(signed.command = "" /\ signed.plugins = "")
    /\ job = NoJob
    /\ result = NoResult

\* the job carries the signed command and plugins, into a build of any id
NextContext ==
    \/ SignInput
    \/ \E b \in BuildIds : Deliver(signed.command, signed.plugins, b)
    \/ CallVerify

SpecContext == InitContext /\ [][NextContext]_vars

\* ---- one run of the upload command, from the flags to the real upload ----
\* In this run job holds the flags of the process, result the region that the
\* secret store is asked in, signed the locals parsed, signed and outputJSON of
\* uploadCommand.run, and runs the calls of buildkite-agent so far.

\* app.Action: the signing secret, from the flag or from the secret store, becomes
\* the Signer of both commands; without a secret or when the store fails the
\* process ends
ResolveSecret ==
    /\ pc = "start"
    /\ IF job.sharedSecret = "" /\ job.awsSharedSecretId = ""
       THEN pc' = "fatal" /\ UNCHANGED <<signer, verifier, result>>
       ELSE IF job.awsSharedSecretId # ""
       THEN /\ result' = [region |-> getAwsSmSecretRegion(job.awsSharedSecretId)[1],
                          hasRegion |-> getAwsSmSecretRegion(job.awsSharedSecretId)[2]]
            /\ \E fetched \in {Err("GetSecretValue"), Ok("secret-alpacas")} :
                  IF fetched.r = "error"
                  THEN pc' = "fatal" /\ UNCHANGED <<signer, verifier>>
                  ELSE /\ signer' = NewSharedSecretSigner(fetched.v)
                       /\ verifier' = signer'
                       /\ pc' = "resolved"
       ELSE /\ signer' = NewSharedSecretSigner(job.sharedSecret)
            /\ verifier' = signer'
            /\ pc' = "resolved"
            /\ UNCHANGED result
    /\ UNCHANGED <<host, environ, pipeline, plugins, runs, signed, job>>

\* getPipelineFromBuildkiteAgent: buildkite-agent pipeline upload --dry-run, and its
\* output decoded; the agent fails, prints the pipeline as JSON, or prints nothing
RunGetPipeline ==
    /\ pc = "resolved"
    /\ runs' = Append(runs, [args |-> <<"pipeline", "upload", "--dry-run">>,
                             stdin |-> "os.Stdin"])
    /\ \E out \in {Err("exit status 1"), Ok(Marshal(pipeline)), Ok("")} :
          IF out.r = "ok" /\ Unmarshal(out.v).ok
          THEN /\ signed' = [signed EXCEPT !.parsed = Unmarshal(out.v).v]
               /\ pc' = "parsed"
          ELSE pc' = "fatal" /\ UNCHANGED signed
    /\ UNCHANGED <<signer, verifier, host, environ, pipeline, plugins, job, result>>

\* l.Signer.Sign(parsed) going on with the parsed document when Sign fails
RunSignIgnoringError ==
    /\ pc = "parsed"
    /\ \E o \in Sign(signer, environ, signed.parsed) :
          /\ signed' = [signed EXCEPT !.signed = IF o.r = "ok" THEN o.v ELSE signed.parsed]
          /\ pc' = "signed"
    /\ UNCHANGED <<signer, verifier, host, environ, pipeline, plugins, runs, job, result>>

\* signed, err := l.Signer.Sign(parsed); an error is fatal, a panic ends the process
RunSign ==
    /\ pc = "parsed"
    /\ \E o \in Sign(signer, environ, signed.parsed) :
          IF o.r = "ok"
          THEN signed' = [signed EXCEPT !.signed = o.v] /\ pc' = "signed"
          ELSE /\ pc' = (IF o.r = "error" THEN "fatal" ELSE "panic")
               /\ UNCHANGED signed
    /\ UNCHANGED <<signer, verifier, host, environ, pipeline, plugins, runs, job, result>>

\* outputJSON, err := json.Marshal(signed)
RunMarshal ==
    /\ pc = "signed"
    /\ signed' = [signed EXCEPT !.outputJSON = Marshal(signed.signed)]
    /\ pc' = "encoded"
    /\ UNCHANGED <<signer, verifier, host, environ, pipeline, plugins, runs, job, result>>

\* buildkite-agent pipeline upload --no-interpolation with outputJSON on its
\* standard input; when the agent fails the process ends
RunUpload ==
    /\ pc = "encoded"
    /\ runs' = Append(runs,
                 [args |-> <<"pipeline", "upload", "--no-interpolation">>
                           \o (IF job.DryRun THEN <<"--dry-run">> ELSE <<>>)
                           \o (IF job.Replace THEN <<"--replace">> ELSE <<>>),
                  stdin |-> signed.outputJSON])
    /\ pc' \in {"uploaded", "fatal"}
    /\ UNCHANGED <<signer, verifier, host, environ, pipeline, plugins, signed, job, result>>

InitUpload ==
    /\ pc = "start"
    /\ signer = Nil
    /\ verifier = Nil
    /\ host = LinuxHost
    /\ environ \in {Environ(b) : b \in BuildIds}
    /\ pipeline \in
          {Str("wait"),
           Map1("steps", Slice(<<Map1("command", Str("x"))>>)),
           Map2("env", Map1("A", Str("b")),
                "steps", Slice(<<Str("wait"),
                                Map1("command", Slice(<<Str("a"), Str("b")>>)),
                                Map1("plugins", Slice(<<DockerA>>))>>)),
           Map1("steps", Slice(<<Map1("command", Str("x")), Map1("command", Num(1))>>)),
           Map1("steps", Slice(<<Map1("command", Str("x")), Num(1)>>)),
           Map1("steps", Slice(<<Map1("command", Str("x")),
                                Map2("group", Str("g"), "steps",
                                     Slice(<<Map2("command", Str("x"),
                                                  "env", Str("bad"))>>))>>))}
    /\ plugins = EmptyMap
    /\ runs = <<>>
    /\ signed = [parsed |-> Nil, signed |-> Nil, outputJSON |-> ""]
    /\ job \in {[sharedSecret |-> secret, awsSharedSecretId |-> id,
                  DryRun |-> dryRun, Replace |-> replace] :
                    secret \in {"", "secret-llamas"},
                    id \in {"", "just-an-id", "arn:aws:secretsmanager:us-east-1",
                            "arn:aws:secretsmanager:ap-southeast-2:1234567:secret:my-global-secret",
                            "arn:aws:secretsmanager::1234567:secret:x",
                            "arn:aws:secretsmanager:eu-west-1:",
                            "arn:aws:s3:us-east-1:1234567:x",
                            " arn:aws:secretsmanager:us-east-1:1234567:secret:x"},
                    dryRun \in BOOLEAN, replace \in BOOLEAN}
    /\ result = [region |-> "", hasRegion |-> FALSE]

NextUpload == ResolveSecret \/ RunGetPipeline \/ RunSign \/ RunMarshal \/ RunUpload

SpecUploadRun == InitUpload /\ [][NextUpload]_vars

(* ------------------------------------------------------------------ *)
(* Properties                                                         *)
(* ------------------------------------------------------------------ *)

\* C1 (Spec): Sign/Verify round trip.  A job made of an uploaded step (its
\* newline-joined command, its plugins as transport JSON in any entry order, its
\* STEP_SIGNATURE), verified under the secret and the build of the upload, is accepted.
C1_RoundTripAccepted ==
    pc = "verified" => result.err = ErrNil

\* C2 (SpecVerify): command tamper detection.  With the plugins, the build and the
\* secret of the signing, Verify accepts the job exactly when its command equals the
\* signed command after trimming, and answers the mismatch error otherwise.
C2_CommandTamperDetected ==
    (/\ pc = "verified"
     /\ job.BUILDKITE_PLUGINS = signed.plugins
     /\ job.BUILDKITE_BUILD_ID = environ[buildkiteBuildIDEnv])
    => result.err = (IF TrimSpace(job.BUILDKITE_COMMAND) = TrimSpace(signed.command)
                     THEN ErrNil ELSE ErrSignatureMismatch)

\* C2: a job whose command was changed is rejected with the mismatch error
C2_Witness ==
    /\ pc = "verified"
    /\ job.BUILDKITE_PLUGINS = signed.plugins
    /\ job.BUILDKITE_BUILD_ID = environ[buildkiteBuildIDEnv]
    /\ signed.command = "x" /\ job.BUILDKITE_COMMAND = "x1"
    /\ result.err = ErrSignatureMismatch

\* the canonical forms of a job's plugin JSON ("" is handed on as it is)
CanonicalForms(pluginJSON) ==
    IF pluginJSON = "" THEN {""}
    ELSE {o.v : o \in {c \in canonicalisePluginJSON(pluginJSON) : c.r = "ok"}}

\* the entries of plugin JSON that holds an array
EntriesOf(pluginJSON) ==
    LET u == Unmarshal(pluginJSON)
    IN  IF pluginJSON # "" /\ u.ok /\ u.v.k = "slice" THEN u.v.l ELSE <<>>

\* b holds the entries of a in another order
IsReordering(a, b) ==
    /\ Len(a) = Len(b)
    /\ \E order \in Orders(1..Len(a)) : \A i \in 1..Len(a) : b[i] = a[order[i]]

\* C3 (SpecVerify): plugin tamper detection.  With the command, the build and the
\* secret of the signing, plugin JSON whose canonical form differs from the signed one
\* is rejected with the mismatch error, and plugin JSON that only reorders the signed
\* entries is accepted.
C3_PluginTamperDetected ==
    (/\ pc = "verified"
     /\ job.BUILDKITE_COMMAND = signed.command
     /\ job.BUILDKITE_BUILD_ID = environ[buildkiteBuildIDEnv]
     /\ CanonicalForms(job.BUILDKITE_PLUGINS) # {})
    => /\ signed.plugins \notin CanonicalForms(job.BUILDKITE_PLUGINS)
            => result.err = ErrSignatureMismatch
       /\ (/\ EntriesOf(signed.plugins) # <<>>
           /\ IsReordering(EntriesOf(signed.plugins), EntriesOf(job.BUILDKITE_PLUGINS)))
            => result.err = ErrNil

\* C4 (SpecVerify): the signature binds the whole signing input.  Under one secret,
\* a digest over a (trimmed command, build id, canonical plugin JSON) that differs
\* from the signed one in some component differs from the signed signature.
C4_SignatureBindsInput ==
    (/\ pc = "verified"
     /\ result.signerCalls = 1
     /\ <<TrimSpace(job.BUILDKITE_COMMAND), job.BUILDKITE_BUILD_ID, result.pluginJSON>>
            # <<TrimSpace(signed.command), environ[buildkiteBuildIDEnv], signed.plugins>>)
    => result.signature # signed.signature

\* C5 (SpecJob): a job with plugins is never exempt.  With plugin JSON and no
\* signature Verify answers an error whatever the command, without asking the
\* allow-list predicate.
C5_PluginsNeverExempt ==
    (pc = "verified" /\ job.BUILDKITE_PLUGINS # "" /\ job.STEP_SIGNATURE = "")
    => result.err # ErrNil /\ result.validatorCalls = 0

\* C5: an upload command with plugins and no signature, a predicate that would allow it
C5_Witness ==
    /\ pc = "verified"
    /\ job.BUILDKITE_PLUGINS = "[{\"docker#v1\":null}]"
    /\ job.STEP_SIGNATURE = ""
    /\ job.BUILDKITE_COMMAND = "buildkite-signed-pipeline upload"
    /\ verifier.unsignedCommandValidatorFunc = "true"
    /\ result.err = ErrSignatureMismatch

\* the job is one for the allow-list predicate
C6_Unsigned ==
    job.STEP_SIGNATURE = "" /\ job.BUILDKITE_PLUGINS = "" /\ job.BUILDKITE_COMMAND # ""

\* the predicate alone decided, and the digest function was not invoked
C6_PredicateDecided ==
    LET v == validatorFunc(verifier, host, job.BUILDKITE_COMMAND)
    IN  /\ result.signerCalls = 0
        /\ result.err = (IF v[2] # ErrNil THEN v[2]
                         ELSE IF v[1] THEN ErrNil ELSE ErrSignatureMissing)

\* the comparison of the recomputed digest with the job's signature decided
C6_DigestDecided ==
    /\ result.signerCalls = 1
    /\ result.err = (IF result.signature = job.STEP_SIGNATURE
                     THEN ErrNil ELSE ErrSignatureMismatch)

\* the job has plugin JSON that does not decode
C6_Undecodable ==
    /\ job.BUILDKITE_PLUGINS # ""
    /\ \A o \in canonicalisePluginJSON(job.BUILDKITE_PLUGINS) : o.r = "error"

\* C6 (SpecJob), as amended: Verify asks the allow-list predicate exactly when the
\* signature and the plugin JSON are empty and the command is not, and then the
\* predicate alone decides; otherwise plugin JSON that does not decode is answered
\* with the decoding error before any digest is computed, and in the remaining cases
\* the comparison of the recomputed digest with the signature decides.
C6_AllowListGate ==
    pc = "verified"
    => /\ result.validatorCalls = (IF C6_Unsigned THEN 1 ELSE 0)
       /\ C6_Unsigned => C6_PredicateDecided
       /\ (~C6_Unsigned /\ C6_Undecodable)
            => result.signerCalls = 0 /\ result.err = "invalid plugin JSON"
       /\ (~C6_Unsigned /\ ~C6_Undecodable) => C6_DigestDecided

\* C6: plugin JSON that does not decode is rejected before the digest is computed
C6_Witness ==
    /\ pc = "verified"
    /\ job.BUILDKITE_PLUGINS = "{}"
    /\ result.signerCalls = 0
    /\ result.validatorCalls = 0
    /\ result.err = "invalid plugin JSON"

\* C6 (SpecJob), as stated: in every case that is not one for the predicate, the
\* comparison of the recomputed digest with the signature decides.
C6_AsStated ==
    pc = "verified"
    => /\ result.validatorCalls = (IF C6_Unsigned THEN 1 ELSE 0)
       /\ C6_Unsigned => C6_PredicateDecided
       /\ ~C6_Unsigned => C6_DigestDecided

\* the upload invocations the predicate recognises on a host
C7_Invocations(h) ==
    LET tool == Base(h, h.args0)
    IN  {tool \o " upload", "buildkite-agent pipeline upload"}
        \cup (IF h.goos = "windows" THEN {TrimSuffix(tool, ".exe") \o " upload"} ELSE {})

\* the shell metacharacters of a host's platform
C7_Metacharacters(h) == IF h.goos = "windows" THEN batchSpecialChars ELSE posixSpecialChars

\* the command starts with a recognised upload invocation
C7_IsUpload == \E u \in C7_Invocations(host) : HasPrefix(job.BUILDKITE_COMMAND, u)

\* the predicate answers true exactly for upload invocations free of the platform's
\* metacharacters; exact invocations are accepted, other commands rejected
C7_Exact ==
    /\ result = (C7_IsUpload
                 /\ ~ContainsAny(job.BUILDKITE_COMMAND, C7_Metacharacters(host)))
    /\ job.BUILDKITE_COMMAND \in C7_Invocations(host) => result = TRUE
    /\ ~C7_IsUpload => result = FALSE

\* C7 (SpecAllowList): IsUnsignedCommandOk is true exactly for the commands that
\* start with a recognised upload invocation and hold no metacharacter of the
\* platform, and so, on every platform, an upload followed by a backtick
\* substitution, a quoted argument or a $VARIABLE is rejected.
C7_AllowListRejectsSubstitution ==
    pc = "checked"
    => /\ C7_Exact
       /\ ContainsAny(job.BUILDKITE_COMMAND, Backtick \o "\"$") => result = FALSE

\* C8 (SpecAllowList): no second command passes the allow list.  A command the
\* predicate accepts holds no newline and, on Windows, none of | < >.
C8_NoSecondCommand ==
    (pc = "checked" /\ result = TRUE)
    => ~ContainsAny(job.BUILDKITE_COMMAND,
                    IF host.goos = "windows" THEN "\n|<>" ELSE "\n")

\* C9 (SpecCanon): canonicalisation is independent of syntax and order.  Every run
\* of extractPlugins on one plugin set, written as an array in any order or as one
\* mapping, gives the same JSON.
C9_SyntaxIndependent ==
    \A i, j \in 1..Len(runs) : runs[i].out = runs[j].out

\* C10 (Spec): signing is deterministic.  Every run of Sign on one document under
\* one secret and build gives the same output.
C10_SignDeterministic ==
    \A i, j \in 1..Len(runs) : runs[i] = runs[j]

\* the keys of a document under which Sign signs the elements of a sequence
StepsKeys(document) ==
    IF document.k # "map" THEN {}
    ELSE {key \in DOMAIN document.m :
            EqualFold(key, "steps") /\ document.m[key].k = "slice"}

\* the runs of Sign that returned a document
Returned == {i \in 1..Len(runs) : runs[i].r = "ok"}

\* the command of a step as signStep resolves it: command, else commands, else ""
RawCommand(step) ==
    IF HasKey(step, "command") THEN step.m["command"]
    ELSE IF HasKey(step, "commands") THEN step.m["commands"]
    ELSE Str("")

\* a step mapping without plugins whose command is absent or the empty string
IsInert(step) ==
    step.k = "map" /\ ~HasKey(step, "plugins") /\ RawCommand(step) = Str("")

\* in every document Sign returned, the steps that satisfy `which` are as they were
Untouched(which(_)) ==
    \A i \in Returned : \A key \in StepsKeys(pipeline) :
        \A n \in 1..Len(pipeline.m[key].l) :
            which(pipeline.m[key].l[n])
            => /\ n <= Len(runs[i].v.m[key].l)
               /\ runs[i].v.m[key].l[n] = pipeline.m[key].l[n]

\* an inert step that is not a group
C11_InertLeaf(step) == IsInert(step) /\ ~HasKey(step, "group")

\* C11 (SpecSign), as amended: inert steps round-trip unchanged.  A step mapping
\* without a group key, without plugins and with an absent or empty command is in
\* the output of Sign with exactly its keys and values, no STEP_SIGNATURE added.
C11_InertUnchanged == Untouched(C11_InertLeaf)

\* C11: a label-only step came back from Sign as it was
C11_Witness ==
    /\ pc = "document"
    /\ pipeline = Map1("steps", Slice(<<Map1("label", Str("x"))>>))
    /\ Returned # {}
    /\ \A i \in Returned : runs[i].v = pipeline

\* C11 (SpecSign), as stated: every step mapping without plugins and with an absent
\* or empty command, a group step included, is in the output as it was.
C11_AsStated == Untouched(IsInert)

\* C12 (SpecSign): Sign preserves the shape of the steps sequence.  The output
\* sequence has the length of the input, a string element is unchanged at its index,
\* and a mapping element is replaced at its index by its signed copy.
C12_ShapePreserved ==
    \A i \in Returned : \A key \in StepsKeys(pipeline) :
        /\ Len(runs[i].v.m[key].l) = Len(pipeline.m[key].l)
        /\ \A n \in 1..Len(pipeline.m[key].l) :
              /\ pipeline.m[key].l[n].k = "string"
                    => runs[i].v.m[key].l[n] = pipeline.m[key].l[n]
              /\ pipeline.m[key].l[n].k = "map"
                    => Ok(runs[i].v.m[key].l[n])
                            \in signStep(signer, environ, pipeline.m[key].l[n])

\* C12: a wait before a command step stayed where it was, and the step after it was
\* signed in place
C12_Witness ==
    /\ pipeline = Map1("steps", Slice(<<Str("wait"), Map1("command", Str("a\nb"))>>))
    /\ Returned # {}
    /\ \A i \in Returned :
          /\ Len(runs[i].v.m["steps"].l) = 2
          /\ runs[i].v.m["steps"].l[1] = Str("wait")
          /\ HasKey(runs[i].v.m["steps"].l[2], "env")

\* a step mapping that signStep signs: not a group, and with a command or plugins
IsSigned(step) == step.k = "map" /\ ~HasKey(step, "group") /\ ~IsInert(step)

\* the command text of a step: a string as it is, a sequence joined by newlines
CommandText(step) ==
    IF RawCommand(step).k = "string" THEN RawCommand(step).s
    ELSE Join([n \in 1..Len(RawCommand(step).l) |-> ElemString(RawCommand(step).l[n])], "\n")

\* the canonical plugin JSON of a step ("" without a plugins field)
PluginTexts(step) ==
    IF HasKey(step, "plugins")
    THEN {p.v : p \in {x \in extractPlugins(step.m["plugins"]) : x.r = "ok"}}
    ELSE {""}

\* the signatures of a step under the secret and build of the signing
Signatures(step) ==
    {signData(signer, environ, CommandText(step), p) : p \in PluginTexts(step)}

\* in every document Sign returned, every signed top-level step and its signed copy
\* satisfy `holds`
SignedSteps(holds(_, _)) ==
    \A i \in Returned : \A key \in StepsKeys(pipeline) :
        \A n \in 1..Len(pipeline.m[key].l) :
            IsSigned(pipeline.m[key].l[n])
            => holds(pipeline.m[key].l[n], runs[i].v.m[key].l[n])

\* env with the signature put in: a new mapping, the mapping with the key set, or
\* the sequence with one KEY=VALUE element more
C13_Injected(env, sig) ==
    CASE env.k = "nil" -> Map1(stepSignatureEnv, Str(sig))
      [] env.k = "map" ->
            Map([x \in DOMAIN env.m \cup {stepSignatureEnv} |->
                    IF x = stepSignatureEnv THEN Str(sig) ELSE env.m[x]])
      [] env.k = "slice" -> Slice(env.l \o <<Str("STEP_SIGNATURE=" \o sig)>>)
      [] OTHER -> Nil     \* no other env is signed

C13_EnvOf(step, signedStep) ==
    /\ HasKey(signedStep, "env")
    /\ \E sig \in Signatures(step) :
          signedStep.m["env"] = C13_Injected(MapGet(step, "env"), sig)

\* C13 (SpecSign): signature injection into env.  The env of a signed step is a new
\* mapping with STEP_SIGNATURE alone when env was absent, the mapping with its
\* entries kept and STEP_SIGNATURE set (an earlier value replaced) when env was a
\* mapping, and the sequence followed by STEP_SIGNATURE=<sig> when env was a sequence.
C13_SignatureInjected == SignedSteps(C13_EnvOf)

\* C13: an env mapping that held an entry and an old STEP_SIGNATURE keeps the entry
\* and holds the new signature
C13_Witness ==
    /\ pipeline = Map1("steps", Slice(<<Map2("command", Str("x"), "env",
                        Map2("A", Str("b"), stepSignatureEnv, Str("old")))>>))
    /\ Returned # {}
    /\ \A i \in Returned :
          /\ runs[i].v.m["steps"].l[1].m["env"].m["A"] = Str("b")
          /\ runs[i].v.m["steps"].l[1].m["env"].m[stepSignatureEnv]
                = Str(signData(signer, environ, "x", ""))

\* the STEP_SIGNATURE in the env of a signed step (env as a mapping)
SignatureOf(signedStep) ==
    IF HasKey(signedStep, "env") /\ HasKey(signedStep.m["env"], stepSignatureEnv)
    THEN signedStep.m["env"].m[stepSignatureEnv]
    ELSE Nil

C14_OverCommandText(step, signedStep) ==
    MapGet(step, "env").k \in {"nil", "map"}
    => SignatureOf(signedStep) \in {Str(sig) : sig \in Signatures(step)}

\* C14 (SpecSign): command extraction for signing.  The signature of a step is the
\* digest over its command when that is a string, over the elements joined by
\* newlines when it is a sequence of strings, and over commands in the same way when
\* command is absent; steps of one document with the same command text and no
\* plugins have the same signature.
C14_CommandExtracted ==
    /\ SignedSteps(C14_OverCommandText)
    /\ \A i \in Returned : \A key \in StepsKeys(pipeline) :
          \A n, o \in 1..Len(pipeline.m[key].l) :
              (/\ IsSigned(pipeline.m[key].l[n]) /\ IsSigned(pipeline.m[key].l[o])
               /\ DOMAIN pipeline.m[key].l[n].m \subseteq {"command", "commands"}
               /\ DOMAIN pipeline.m[key].l[o].m \subseteq {"command", "commands"}
               /\ CommandText(pipeline.m[key].l[n]) = CommandText(pipeline.m[key].l[o]))
              => SignatureOf(runs[i].v.m[key].l[n]) = SignatureOf(runs[i].v.m[key].l[o])

\* C14: {command: [a, b]} and {command: "a\nb"} in one document were both signed
\* over "a\nb"
C14_Witness ==
    /\ pipeline = Map1("steps", Slice(<<Map1("command", Slice(<<Str("a"), Str("b")>>)),
                                        Map1("command", Str("a\nb"))>>))
    /\ Returned # {}
    /\ \A i \in Returned : \A n \in 1..2 :
          SignatureOf(runs[i].v.m["steps"].l[n]) = Str(signData(signer, environ, "a\nb", ""))

C15_OverPlugins(step, signedStep) ==
    (RawCommand(step) = Str("") /\ HasKey(step, "plugins"))
    => /\ SignatureOf(signedStep) \in {Str(signData(signer, environ, "", p)) :
                                            p \in PluginTexts(step)}
       /\ signedStep.m["plugins"] = step.m["plugins"]
       /\ step.m["plugins"] = Slice(<<Map1("docker#v1.4.0", Map1("image", Str("x")))>>)
            => SignatureOf(signedStep)
                = Str(signData(signer, environ, "",
                    "[{\"github.com/buildkite-plugins/docker-buildkite-plugin#v1.4.0\""
                    \o ":{\"image\":\"x\"}}]"))

\* C15 (SpecSign): a step with plugins and no command is signed.  Its STEP_SIGNATURE
\* is the digest over the empty command and the canonical plugin JSON, in which
\* docker#v1.4.0 reads github.com/buildkite-plugins/docker-buildkite-plugin#v1.4.0, and
\* its plugins field is as authored.
C15_PluginOnlySigned == SignedSteps(C15_OverPlugins)

\* C15: the step {plugins: [{docker#v1.4.0: {image: x}}]} came back signed, its
\* plugins as authored
C15_Witness ==
    /\ pipeline = Map1("steps", Slice(<<Map1("plugins",
                        Slice(<<Map1("docker#v1.4.0", Map1("image", Str("x")))>>))>>))
    /\ Returned # {}
    /\ \A i \in Returned :
          /\ SignatureOf(runs[i].v.m["steps"].l[1]).k = "string"
          /\ runs[i].v.m["steps"].l[1].m["plugins"] = pipeline.m["steps"].l[1].m["plugins"]

\* the keys of a step that signStep may write: env, and steps for a group step
C16_Written(step) == IF HasKey(step, "group") THEN {"env", "steps"} ELSE {"env"}

\* the signed copy has the keys of the step, env possibly added, and the values of
\* the keys that signStep does not write
C16_StepFrame(step, signedStep) ==
    /\ signedStep.k = "map"
    /\ DOMAIN step.m \subseteq DOMAIN signedStep.m
    /\ DOMAIN signedStep.m \subseteq DOMAIN step.m \cup {"env"}
    /\ \A k \in DOMAIN step.m \ C16_Written(step) : signedStep.m[k] = step.m[k]

\* C16 (SpecSign): frame of signing.  The document handed to Sign is as it was; the
\* output has the top-level keys of the input, those other than steps with their
\* values; every output step has the keys of its input step with their values, but
\* for env, which may be added or replaced, and for the steps of a group step, which
\* are replaced; no other key is added, removed or changed.
C16_FramePreserved ==
    \A i \in Returned :
        pipeline.k = "map"
        => /\ DOMAIN runs[i].v.m = DOMAIN pipeline.m
           /\ \A key \in DOMAIN pipeline.m \ StepsKeys(pipeline) :
                 runs[i].v.m[key] = pipeline.m[key]
           /\ \A key \in StepsKeys(pipeline) : \A n \in 1..Len(pipeline.m[key].l) :
                 pipeline.m[key].l[n].k = "map"
                 => C16_StepFrame(pipeline.m[key].l[n], runs[i].v.m[key].l[n])

\* a signed copy of a step as Sign makes it of a top-level step, at any depth: a
\* string and an inert step as they were, a step with a command or plugins with its
\* keys and the signature in env, a group with its fields and its nested steps so
RECURSIVE C17_SignedAs(_, _)
C17_SignedAs(step, signedStep) ==
    IF step.k = "string" THEN signedStep = step
    ELSE IF HasKey(step, "group") /\ MapGet(step, "steps").k = "slice"
    THEN /\ DOMAIN signedStep.m = DOMAIN step.m
         /\ \A k \in DOMAIN step.m \ {"steps"} : signedStep.m[k] = step.m[k]
         /\ signedStep.m["steps"].k = "slice"
         /\ Len(signedStep.m["steps"].l) = Len(step.m["steps"].l)
         /\ \A n \in 1..Len(step.m["steps"].l) :
               C17_SignedAs(step.m["steps"].l[n], signedStep.m["steps"].l[n])
    ELSE IF IsSigned(step)
    THEN C13_EnvOf(step, signedStep) /\ C16_StepFrame(step, signedStep)
    ELSE signedStep = step

\* C17 (SpecSign): recursive group signing.  In a step with a group key and a nested
\* steps sequence, at any depth, every nested step with a command or plugins has the
\* STEP_SIGNATURE of a top-level step, nested strings and inert steps are as they
\* were, and the other fields of the group keep their values.
C17_GroupsSigned ==
    \A i \in Returned : \A key \in StepsKeys(pipeline) :
        \A n \in 1..Len(pipeline.m[key].l) :
            (HasKey(pipeline.m[key].l[n], "group")
             /\ MapGet(pipeline.m[key].l[n], "steps").k = "slice")
            => C17_SignedAs(pipeline.m[key].l[n], runs[i].v.m[key].l[n])

\* C17: a command step in a group in a group has the signature of a top-level step
C17_Witness ==
    /\ \E g \in {Map2("group", Str("g"), "label", Str("l"))} :
          pipeline = Map1("steps", Slice(<<MapSet(g, "steps", Slice(<<MapSet(g, "steps",
                        Slice(<<Map1("command", Slice(<<Str("a"), Str("b")>>))>>))>>))>>))
    /\ Returned # {}
    /\ \A i \in Returned :
          /\ runs[i].v.m["steps"].l[1].m["label"] = Str("l")
          /\ SignatureOf(runs[i].v.m["steps"].l[1].m["steps"].l[1].m["steps"].l[1])
                = Str(signData(signer, environ, "a\nb", ""))

\* the step is one whose signing fails, or a group with such a step nested in it
RECURSIVE C18_HasFailingStep(_)
C18_HasFailingStep(step) ==
    IF step.k # "map" THEN FALSE
    ELSE IF HasKey(step, "group")
    THEN /\ MapGet(step, "steps").k = "slice"
         /\ \E n \in 1..Len(step.m["steps"].l) : C18_HasFailingStep(step.m["steps"].l[n])
    ELSE \A o \in signStep(signer, environ, step) : o.r = "error"

\* C18 (SpecSign): all-or-nothing signing.  When the signing of one step fails, the
\* step at the top level or nested in a group, Sign returns an error to its caller
\* and no signed document.
C18_AllOrNothing ==
    \A i \in 1..Len(runs) :
        (\E key \in StepsKeys(pipeline) : \E n \in 1..Len(pipeline.m[key].l) :
            C18_HasFailingStep(pipeline.m[key].l[n]))
        => runs[i].r = "error"

\* C19 (SpecContext): a signature is bound to its signing context.  The signature of
\* a command and plugins under one secret and build id is rejected by Verify, for the
\* same command and plugins, under a build id that differs and under a secret whose
\* HMAC key block differs.
C19_BoundToContext ==
    (/\ pc = "verified"
     /\ \/ HmacKey(verifier.secret) # HmacKey(signer.secret)
        \/ job.BUILDKITE_BUILD_ID # environ[buildkiteBuildIDEnv])
    => result.err = ErrSignatureMismatch

\* C19: the signature of one build is rejected in another build, the secret the same
C19_Witness ==
    /\ pc = "verified"
    /\ verifier = signer
    /\ environ[buildkiteBuildIDEnv] = "1" /\ job.BUILDKITE_BUILD_ID = ""
    /\ job.BUILDKITE_COMMAND = signed.command /\ job.BUILDKITE_PLUGINS = signed.plugins
    /\ result.err = ErrSignatureMismatch

\* C19 as stated: rejected under every secret that differs from the signing secret
C19_AsStated ==
    (/\ pc = "verified"
     /\ \/ verifier.secret # signer.secret
        \/ job.BUILDKITE_BUILD_ID # environ[buildkiteBuildIDEnv])
    => result.err = ErrSignatureMismatch

\* C20 (SpecSign): scope of signing.  A document that is not a mapping is returned
\* as it is; a mapping with no key that equals steps under case folding and holds a
\* sequence is returned with equal content, a command of its own or not; and of any
\* mapping Sign returns the keys, each but those steps keys with its value.
C20_ScopeOfSigning ==
    \A i \in 1..Len(runs) :
        /\ StepsKeys(pipeline) = {} => runs[i] = Ok(pipeline)
        /\ (i \in Returned /\ pipeline.k = "map")
           => /\ DOMAIN runs[i].v.m = DOMAIN pipeline.m
              /\ \A key \in DOMAIN pipeline.m \ StepsKeys(pipeline) :
                    runs[i].v.m[key] = pipeline.m[key]

\* C20: a mapping with a command and no steps is returned with no signature added
C20_Witness ==
    /\ pipeline.k = "map"
    /\ HasKey(pipeline, "command") /\ ~HasKey(pipeline, "steps")
    /\ Len(runs) > 0
    /\ runs[1] = Ok(pipeline)

\* C20 as stated: the steps key is the key written steps
C20_AsStated ==
    \A i \in 1..Len(runs) :
        (\/ pipeline.k # "map"
         \/ ~HasKey(pipeline, "steps")
         \/ pipeline.m["steps"].k # "slice")
        => runs[i] = Ok(pipeline)

\* an entry of a plugins array as a single-key mapping from its qualified reference
C23_Entry(item) ==
    IF item.k = "string" THEN Map1(Repository(Plugin(item.s, Nil)), Nil)
    ELSE LET Named(name) == Map1(Repository(Plugin(name, Nil)), item.m[name])
         IN  Named(CHOOSE name \in DOMAIN item.m : TRUE)

C23_Reference(entry) == CHOOSE key \in DOMAIN entry.m : TRUE

\* the entries in ascending order of their references, equal references in the
\* order they came in: the first of the least entries, then the rest so
RECURSIVE C23_StableOrder(_)
C23_StableOrder(entries) ==
    IF Len(entries) = 0 THEN <<>>
    ELSE LET Without(i) ==
                 <<entries[i]>> \o C23_StableOrder(SubSeq(entries, 1, i - 1)
                                                   \o SubSeq(entries, i + 1, Len(entries)))
         IN  Without(CHOOSE i \in 1..Len(entries) :
                 /\ \A j \in 1..Len(entries) :
                       ~StrLess(C23_Reference(entries[j]), C23_Reference(entries[i]))
                 /\ \A j \in 1..(i - 1) :
                       StrLess(C23_Reference(entries[i]), C23_Reference(entries[j])))

\* a plugins array of names and single-key mappings with mappings or null as parameters
C23_PlainArray(step) ==
    /\ IsSigned(step)
    /\ MapGet(step, "plugins").k = "slice"
    /\ Len(step.m["plugins"].l) > 0
    /\ \A n \in 1..Len(step.m["plugins"].l) :
          \/ step.m["plugins"].l[n].k = "string"
          \/ /\ step.m["plugins"].l[n].k = "map"
             /\ Cardinality(DOMAIN step.m["plugins"].l[n].m) = 1
             /\ \A name \in DOMAIN step.m["plugins"].l[n].m :
                   step.m["plugins"].l[n].m[name].k \in {"map", "nil"}

C23_OverStableOrder(step, signedStep) ==
    C23_PlainArray(step)
    => SignatureOf(signedStep)
         = Str(signData(signer, environ, CommandText(step),
                 Marshal(Slice(C23_StableOrder(
                     [n \in 1..Len(step.m["plugins"].l) |->
                         C23_Entry(step.m["plugins"].l[n])])))))

\* C23 (SpecSign): canonical ordering of plugins.  The canonical plugin JSON that a
\* step is signed over lists the entries in ascending order of their qualified
\* reference, entries with equal references in their original relative order.
C23_StableCanonicalOrder == SignedSteps(C23_OverStableOrder)

\* a step without plugins whose command is neither a string nor a sequence of strings
C25_Unsupported(step) ==
    /\ step.k = "map"
    /\ ~HasKey(step, "group") /\ ~HasKey(step, "plugins")
    /\ RawCommand(step).k # "string"
    /\ ~(/\ RawCommand(step).k = "slice"
          /\ \A n \in 1..Len(RawCommand(step).l) : RawCommand(step).l[n].k = "string")

\* C25 (SpecSign): unsupported command types fail signing.  When the command of a
\* step is neither a string nor a sequence whose elements are all strings, Sign
\* returns an error and no signed document.
C25_UnsupportedCommandFails ==
    \A i \in 1..Len(runs) :
        (\E key \in StepsKeys(pipeline) : \E n \in 1..Len(pipeline.m[key].l) :
            C25_Unsupported(pipeline.m[key].l[n]))
        => runs[i].r = "error"

\* two steps with the same fields but plugins, the same plugin names in their
\* plugins arrays, and parameters that differ
C26_ParametersDiffer(step, other) ==
    /\ IsSigned(step) /\ IsSigned(other)
    /\ DOMAIN step.m = DOMAIN other.m
    /\ \A k \in DOMAIN step.m \ {"plugins"} : step.m[k] = other.m[k]
    /\ MapGet(step, "plugins").k = "slice" /\ MapGet(other, "plugins").k = "slice"
    /\ Len(step.m["plugins"].l) = Len(other.m["plugins"].l)
    /\ \A n \in 1..Len(step.m["plugins"].l) :
          /\ step.m["plugins"].l[n].k = "map" /\ other.m["plugins"].l[n].k = "map"
          /\ DOMAIN step.m["plugins"].l[n].m = DOMAIN other.m["plugins"].l[n].m
          /\ Cardinality(DOMAIN step.m["plugins"].l[n].m) = 1
    /\ step.m["plugins"] # other.m["plugins"]

\* C26 (SpecSign): sensitivity of Sign to plugin parameters.  Two steps of a
\* document that differ in the value of a plugin parameter alone, the value of any
\* JSON type, have different STEP_SIGNATUREs.
C26_ParametersSigned ==
    \A i \in Returned : \A key \in StepsKeys(pipeline) :
        \A n, o \in 1..Len(pipeline.m[key].l) :
            C26_ParametersDiffer(pipeline.m[key].l[n], pipeline.m[key].l[o])
            => SignatureOf(runs[i].v.m[key].l[n]) # SignatureOf(runs[i].v.m[key].l[o])

\* a step whose plugins declaration is an empty sequence or an empty mapping
C27_EmptyPlugins(step) ==
    /\ step.k = "map" /\ ~HasKey(step, "group")
    /\ MapGet(step, "plugins") \in {Slice(<<>>), EmptyMap}
    /\ RawCommand(step).k = "string"

\* C27 (SpecSign): an empty plugins declaration is nothing to sign.  A step with an
\* empty plugins declaration and no command is returned as it is, and one with a
\* command has the signature of the same step without the plugins field.
C27_EmptyPluginsIgnored ==
    \A i \in Returned : \A key \in StepsKeys(pipeline) :
        \A n \in 1..Len(pipeline.m[key].l) :
            C27_EmptyPlugins(pipeline.m[key].l[n])
            => IF RawCommand(pipeline.m[key].l[n]) = Str("")
               THEN runs[i].v.m[key].l[n] = pipeline.m[key].l[n]
               ELSE SignatureOf(runs[i].v.m[key].l[n])
                      = Str(signData(signer, environ,
                                     RawCommand(pipeline.m[key].l[n]).s, ""))

\* the entries of an env that are STEP_SIGNATURE entries: the key of a mapping, the
\* elements STEP_SIGNATURE=... of a sequence
C28_Entries(env) ==
    CASE env.k = "map" -> {<<key, stepSignatureEnv \o "=" \o env.m[key].s>> :
                              key \in DOMAIN env.m \cap {stepSignatureEnv}}
      [] env.k = "slice" -> {<<n, env.l[n].s>> : n \in {o \in 1..Len(env.l) :
                                env.l[o].k = "string"
                                /\ HasPrefix(env.l[o].s, stepSignatureEnv \o "=")}}
      [] OTHER -> {}

C28_OneEntry(step, signedStep) ==
    /\ Cardinality(C28_Entries(MapGet(signedStep, "env"))) = 1
    /\ \E sig \in Signatures(step) :
          \A entry \in C28_Entries(MapGet(signedStep, "env")) :
              entry[2] = stepSignatureEnv \o "=" \o sig

\* C28 (SpecSign): after Sign the env of every signed step holds exactly one
\* STEP_SIGNATURE entry, the signature of this pass, whatever the env held before,
\* as a mapping and as a sequence of KEY=VALUE elements.
C28_OneSignature == SignedSteps(C28_OneEntry)

\* C29 (SpecSign): Sign is total on decoded JSON.  For every document of mappings,
\* sequences, strings, numbers, booleans and null, Sign returns a signed document or
\* an error; it never crashes.
C29_SignTotal ==
    \A i \in 1..Len(runs) : runs[i].r \in {"ok", "error"}

\* the fields of a step that signStep reads to sign it
C30_OwnFields == {"command", "commands", "plugins", "env"}

\* a group step whose nested steps are strings and mappings that all sign
C30_SoundGroup(step) ==
    /\ step.k = "map" /\ HasKey(step, "group")
    /\ ~C18_HasFailingStep(step)
    /\ MapGet(step, "steps").k = "slice"
       => \A n \in 1..Len(step.m["steps"].l) : step.m["steps"].l[n].k \in {"string", "map"}

\* C30 (SpecSign): a step with a group key gets no STEP_SIGNATURE of its own.  Sign
\* returns the group step with its command, commands, plugins and env as they were,
\* no env added; and it returns the document whatever these fields hold, when the
\* nested steps can be signed.
C30_GroupNotSigned ==
    /\ \A i \in Returned : \A key \in StepsKeys(pipeline) :
          \A n \in 1..Len(pipeline.m[key].l) :
              HasKey(pipeline.m[key].l[n], "group")
              => \A field \in C30_OwnFields :
                    /\ HasKey(runs[i].v.m[key].l[n], field)
                          = HasKey(pipeline.m[key].l[n], field)
                    /\ MapGet(runs[i].v.m[key].l[n], field)
                          = MapGet(pipeline.m[key].l[n], field)
    /\ \A i \in 1..Len(runs) :
          (/\ StepsKeys(pipeline) = {"steps"}
           /\ \A n \in 1..Len(pipeline.m["steps"].l) :
                 C30_SoundGroup(pipeline.m["steps"].l[n]))
          => runs[i].r = "ok"

\* C30: a group step with a number as its command and a string as its env is
\* returned with both, and its nested command step is signed
C30_Witness ==
    /\ pipeline.k = "map" /\ DOMAIN pipeline.m = {"steps"}
    /\ MapGet(pipeline, "steps").k = "slice" /\ Len(pipeline.m["steps"].l) = 1
    /\ pipeline.m["steps"].l[1].k = "map"
    /\ HasKey(pipeline.m["steps"].l[1], "group")
    /\ MapGet(pipeline.m["steps"].l[1], "command") = Num(1)
    /\ Returned # {}
    /\ \A i \in Returned :
          /\ runs[i].v.m["steps"].l[1].m["env"] = Str("bad")
          /\ runs[i].v.m["steps"].l[1].m["command"] = Num(1)
          /\ SignatureOf(runs[i].v.m["steps"].l[1].m["steps"].l[1])
                = Str(signData(signer, environ, "x", ""))

\* the text is one or more letters, digits and hyphens
C24_Segment(text) ==
    Len(text) > 0 /\ \A n \in 1..Len(text) : IsIdentChar(At(text, n))

\* the text is empty or a version: # and one or more characters of one line
C24_Version(text) ==
    \/ text = ""
    \/ Len(text) > 1 /\ At(text, 1) = "#" /\ \A n \in 2..Len(text) : At(text, n) # "\n"

\* the resolution of a name split at `at`, its first # (or its end)
C24_SplitAt(name, at) ==
    LET base == SubSeq(name, 1, at - 1)
        version == SubSeq(name, at, Len(name))
        slashes == {n \in 1..Len(base) : At(base, n) = "/"}
    IN  IF C24_Version(version) /\ C24_Segment(base)
        THEN "github.com/buildkite-plugins/" \o base \o "-buildkite-plugin" \o version
        ELSE IF /\ C24_Version(version)
                /\ \E n \in slashes : /\ C24_Segment(SubSeq(base, 1, n - 1))
                                       /\ C24_Segment(SubSeq(base, n + 1, Len(base)))
        THEN "github.com/" \o base \o "-buildkite-plugin" \o version
        ELSE name

C24_Resolved(name) ==
    C24_SplitAt(name, Least({n \in 1..Len(name) : At(name, n) = "#"} \cup {Len(name) + 1}))

\* the plugin references in canonical plugin JSON
C24_References(pluginJSON) ==
    LET Keys(u) == UNION {DOMAIN u.v.l[n].m : n \in 1..Len(u.v.l)}
    IN  Keys(Unmarshal(pluginJSON))

\* C24 (SpecCanon): plugin reference resolution is total and idempotent.  A name of
\* one segment of letters, digits and hyphens, with or without a #version, resolves
\* to github.com/buildkite-plugins/<name>-buildkite-plugin<#version>, a name
\* org/name of two such segments to github.com/<org>/<name>-buildkite-plugin<#version>,
\* every other name to itself, and a resolved name to itself; extractPlugins writes
\* the resolved names.
C24_RepositoryResolves ==
    /\ \A name \in DOMAIN plugins.m :
          /\ Repository(Plugin(name, Nil)) = C24_Resolved(name)
          /\ Repository(Plugin(Repository(Plugin(name, Nil)), Nil))
                = Repository(Plugin(name, Nil))
    /\ \A i \in 1..Len(runs) :
          /\ runs[i].out.r = "ok"
          /\ C24_References(runs[i].out.v) = {C24_Resolved(name) : name \in DOMAIN plugins.m}

\* C24: a name org/name with a version and a resolved name, both written out by
\* extractPlugins, the resolved name as it was
C24_Witness ==
    /\ DOMAIN plugins.m = {"my-org/my-plugin#v1.2.3",
                           "github.com/buildkite-plugins/docker-buildkite-plugin#v1"}
    /\ Len(runs) > 0
    /\ C24_References(runs[1].out.v)
          = {"github.com/my-org/my-plugin-buildkite-plugin#v1.2.3",
             "github.com/buildkite-plugins/docker-buildkite-plugin#v1"}

\* the calls of buildkite-agent that are the real upload
C21_RealUploads == {i \in 1..Len(runs) : runs[i].args[3] = "--no-interpolation"}

\* what holds when the real upload was started: it is the second call, after the dry
\* run; the dry run's output was decoded; Sign returned the signed document for it;
\* and the upload reads the JSON of that document
C21_Ordered ==
    \A i \in C21_RealUploads :
        /\ i = 2 /\ Len(runs) = 2
        /\ runs[1].args = <<"pipeline", "upload", "--dry-run">>
        /\ Unmarshal(Marshal(pipeline)).ok
        /\ signed.parsed = Unmarshal(Marshal(pipeline)).v
        /\ Ok(signed.signed) \in Sign(signer, environ, signed.parsed)
        /\ signed.outputJSON = Marshal(signed.signed)
        /\ runs[i].stdin = signed.outputJSON
        /\ pc \in {"uploaded", "fatal"}

\* C21 (SpecUploadRun): ordering of the upload command.  The real upload is started
\* only from the point where the dry run was fetched and decoded, Sign succeeded
\* and its result was encoded, and it reads that encoding; once the process has
\* ended without a real upload, none is started.
C21_UploadOrdered ==
    /\ [](C21_Ordered)
    /\ [][C21_RealUploads' # C21_RealUploads => pc = "encoded"]_vars
    /\ []((pc \in {"fatal", "panic"} /\ C21_RealUploads = {}) => [](C21_RealUploads = {}))

\* C21: a pipeline was uploaded, its command step signed
C21_Witness ==
    /\ pc = "uploaded"
    /\ C21_RealUploads = {2}
    /\ pipeline = Map1("steps", Slice(<<Map1("command", Str("x"))>>))
    /\ SignatureOf(Unmarshal(runs[2].stdin).v.m["steps"].l[1])
          = Str(signData(signer, environ, "x", ""))

\* the region of an identifier arn:aws:secretsmanager:<region>:..., or no region
C22_Region(secretId) ==
    LET Colons == {n \in 1..Len(secretId) :
                     /\ At(secretId, n) = ":"
                     /\ SubSeq(secretId, 1, n)
                          = "arn:aws:secretsmanager:" \o SubSeq(secretId, 24, n - 1) \o ":"
                     /\ n > 24
                     /\ \A o \in 24..(n - 1) : At(secretId, o) # ":"}
    IN  IF Colons = {} THEN [region |-> "", hasRegion |-> FALSE]
        ELSE [region |-> SubSeq(secretId, 24, Least(Colons) - 1), hasRegion |-> TRUE]

\* C22 (SpecUploadRun): region inference for the secret store.  For an identifier
\* that starts with arn:aws:secretsmanager:<region>: where the region is not empty
\* and holds no colon, the store is asked in that region; for every other
\* identifier no region is inferred.
C22_RegionInferred ==
    (pc # "start" /\ job.awsSharedSecretId # "")
    => result = C22_Region(job.awsSharedSecretId)

\* C22: the region of an ARN is inferred, and the secret fetched there signs
C22_Witness ==
    /\ pc = "resolved"
    /\ job.awsSharedSecretId
          = "arn:aws:secretsmanager:ap-southeast-2:1234567:secret:my-global-secret"
    /\ result = [region |-> "ap-southeast-2", hasRegion |-> TRUE]
    /\ signer = NewSharedSecretSigner("secret-alpacas")

=============================================================================
